---------------------------- MODULE Spec2Model ----------------------------
(***************************************************************************)
(* Model of hangupserver.py: the call-termination handler, the directory  *)
(* synchronisation handlers and the recording catalogue with its          *)
(* background delete thread.                                               *)
(*                                                                         *)
(* Python strings that the code scans character by character are modelled *)
(* as sequences of one-character strings; status words that are only      *)
(* stored and compared are TLA+ strings.                                   *)
(***************************************************************************)
EXTENDS Integers, Sequences, FiniteSets, TLC

VARIABLES
    \* recordings directory /var/www/html/recordings and its modification times
    recDir, mtime,
    \* settings.totalrecordings copied into totRetainRecFile
    totRetainRecFile,
    \* globals of the delete thread protocol
    deleteProc, fileNeedToDelete, fileToDeleteCnt,
    \* content of recordinglist.xml: a sequence of INFO rows
    recordingXml,
    \* status rows returned by the update handlers
    listUpdtData,
    \* channel call status table
    hangupData,
    \* the three contact tables
    contactListData, webRtcContListData, intercomListData,
    \* content of listContact.xml, registrarlist.xml and intercomlist.xml:
    \* sequences of rows, empty while the file has not been written
    listContactXml, registrarlistXml, intercomlistXml,
    \* number of update requests for the contact tables served so far
    served,
    \* whether the delete thread is still running
    reaperAlive,
    \* where the request thread and the delete thread stand inside
    \* getRecordFile() and deleteRecordingFile(), with their locals
    thr,
    \* the request served last: its inputs, the state it started from, its result
    last

vars == <<recDir, mtime, totRetainRecFile, deleteProc, fileNeedToDelete,
          fileToDeleteCnt, recordingXml, listUpdtData, hangupData,
          contactListData, webRtcContListData, intercomListData,
          listContactXml, registrarlistXml, intercomlistXml, served,
          reaperAlive, thr, last>>

dirVars == <<contactListData, webRtcContListData, intercomListData,
             listContactXml, registrarlistXml, intercomlistXml, served>>

recVars == <<recDir, mtime, totRetainRecFile, deleteProc, fileNeedToDelete,
             fileToDeleteCnt, recordingXml, reaperAlive, thr>>

-----------------------------------------------------------------------------
(* Python string helpers *)

Min(a, b) == IF a < b THEN a ELSE b
Max(a, b) == IF a > b THEN a ELSE b

\* s[i:j] of Python, negative indices counted from the end
PySlice(s, i, j) ==
    LET n  == Len(s)
        ii == IF i < 0 THEN Max(i + n, 0) ELSE Min(i, n)
        jj == IF j < 0 THEN Max(j + n, 0) ELSE Min(j, n)
    IN  IF ii < jj THEN SubSeq(s, ii + 1, jj) ELSE << >>

\* mid(s, offset, amount): s[offset - 1:offset + amount - 1]
mid(s, offset, amount) == PySlice(s, offset - 1, offset + amount - 1)

\* needle in hay (substring test)
StrIn(needle, hay) ==
    \E k \in 0..(Len(hay) - Len(needle)) :
        SubSeq(hay, k + 1, k + Len(needle)) = needle

NA == <<"N", "A">>
Ext0000 == <<"0", "0", "0", "0">>

-----------------------------------------------------------------------------
(* Recording catalogue: getRecordFile *)

\* recording names the directory may hold: two in the standard
\* {date}-{time}-{extA}-{extB}.ogg form and one without any hyphen
RecA == <<"1", "-", "2", "-", "3", "-", "4", "-", "5", "-", "6", ".", "o", "g", "g">>
RecB == <<"1", "-", "2", "-", "3", "-", "7", "-", "5", "-", "8", ".", "o", "g", "g">>
RecBad == <<"x", ".", "o", "g", "g">>
RecNames == {RecA, RecB, RecBad}

\* largest retain count tried
MaxRetain == 2

\* sorted(recordFile, key=lambda t: -os.stat(t).st_mtime)
RECURSIVE SortedByMtimeDesc(_, _)
SortedByMtimeDesc(files, mt) ==
    IF files = {} THEN << >>
    ELSE LET f == CHOOSE x \in files : \A y \in files : mt[y] <= mt[x]
         IN  <<f>> \o SortedByMtimeDesc(files \ {f}, mt)

\* one character of the file name scan (lines 520-554); st holds the scanner's locals
ScanChar(st, oneChar) ==
    IF st.dataSelect = 0 THEN
        IF oneChar # <<"o">> /\ oneChar # <<"g">> THEN
            IF oneChar = <<"-">> THEN
                [st EXCEPT !.dashCnt = @ + 1,
                           !.tempDateTimeOfCall =
                               IF st.dashCnt + 1 < 4 THEN @ \o oneChar ELSE @]
            ELSE IF st.dashCnt < 4 THEN
                [st EXCEPT !.tempDateTimeOfCall = @ \o oneChar]
            ELSE IF st.dashCnt = 4 THEN
                [st EXCEPT !.dateTimeOfCall = Append(@, st.tempDateTimeOfCall),
                           !.tempExtInvol = @ \o oneChar,
                           !.dataSelect = 1,
                           !.dashCnt = 0]
            ELSE st
        ELSE st
    ELSE
        IF oneChar # <<".">> THEN
            [st EXCEPT !.tempExtInvol = @ \o oneChar]
        ELSE
            [st EXCEPT !.extInvol = Append(@, st.tempExtInvol),
                       !.dataSelect = 0,
                       !.tempExtInvol = << >>,
                       !.tempDateTimeOfCall = << >>]

\* for b in range(0, fileNameCnt + 1): oneChar = mid(fileName, b, 1); the
\* locals after one character are a value before the next one is read
RECURSIVE ScanName(_, _, _)
ScanName(fileName, b, st) ==
    IF b > Len(fileName) THEN st
    ELSE CHOOSE r \in {ScanName(fileName, b + 1, s) :
                           s \in {ScanChar(st, mid(fileName, b, 1))}} : TRUE

\* for a in range(totRecordFile): the retention test and the scan (lines 467-554)
RECURSIVE RecordLoop(_, _, _, _)
RecordLoop(recordFile, a, retain, st) ==
    IF a >= Len(recordFile) THEN st
    ELSE LET fileName == recordFile[a + 1]
         IN  IF a >= retain /\ fileName # << >> THEN
                 RecordLoop(recordFile, a + 1, retain,
                     [st EXCEPT !.deleteProc = TRUE,
                                !.fileNeedToDelete = Append(@, fileName),
                                !.fileToDeleteCnt = @ + 1])
             ELSE
                 RecordLoop(recordFile, a + 1, retain,
                     ScanName(fileName, 0, [st EXCEPT !.realTotRecFile = a + 1]))

SentinelRow == [DATETIME |-> NA, EXTENSIONS |-> NA, FILEPATH |-> NA]

\* RecordRows with the test of line 562 made on the number of files found
\* (the condition the source keeps as a comment at line 561)
RecordRowsByTotal(recordFile, st) ==
    IF Len(recordFile) > 0 THEN
        IF st.realTotRecFile <= Len(st.dateTimeOfCall)
               /\ st.realTotRecFile <= Len(st.extInvol)
        THEN [raised |-> FALSE,
              rows |-> [a \in 1..st.realTotRecFile |->
                           [DATETIME |-> st.dateTimeOfCall[a],
                            EXTENSIONS |-> st.extInvol[a],
                            FILEPATH |-> recordFile[a]]]]
        ELSE [raised |-> TRUE, rows |-> << >>]
    ELSE [raised |-> FALSE, rows |-> <<SentinelRow>>]

\* the INFO rows built at lines 567-589; raised: dateTimeOfCall[a] or
\* extInvol[a] is past the end of its list (IndexError)
RecordRows(recordFile, st) ==
    IF st.realTotRecFile > 0 THEN
        IF st.realTotRecFile <= Len(st.dateTimeOfCall)
               /\ st.realTotRecFile <= Len(st.extInvol)
        THEN [raised |-> FALSE,
              rows |-> [a \in 1..st.realTotRecFile |->
                           [DATETIME |-> st.dateTimeOfCall[a],
                            EXTENSIONS |-> st.extInvol[a],
                            FILEPATH |-> recordFile[a]]]]
        ELSE [raised |-> TRUE, rows |-> << >>]
    ELSE [raised |-> FALSE, rows |-> <<SentinelRow>>]

\* the body of getRecordFile() under "if deleteProc == False" (lines 466-611):
\* the loop, the rows and the write. writeOk: whether xmlTree.write succeeds.
RefreshRun(dir, mt, retain, busy, queue, cnt, xml, writeOk) ==
    LET recordFile == SortedByMtimeDesc(dir, mt)
        st0 == [deleteProc |-> busy, fileNeedToDelete |-> queue,
                fileToDeleteCnt |-> cnt, realTotRecFile |-> 0,
                dataSelect |-> 0, dashCnt |-> 0,
                tempDateTimeOfCall |-> << >>, tempExtInvol |-> << >>,
                dateTimeOfCall |-> << >>, extInvol |-> << >>]
        st == RecordLoop(recordFile, 0, retain, st0)
        built == RecordRows(recordFile, st)
        ok == ~built.raised /\ writeOk
    IN  [retResult |-> ok,
         deleteProc |-> st.deleteProc,
         fileNeedToDelete |-> st.fileNeedToDelete,
         fileToDeleteCnt |-> st.fileToDeleteCnt,
         recordingXml |-> IF ok THEN built.rows ELSE xml]

\* getRecordFile with the busy test of line 464 left out
getRecordFileNoBusyTest(dir, mt, retain, busy, queue, cnt, xml, writeOk) ==
    RefreshRun(dir, mt, retain, busy, queue, cnt, xml, writeOk)

\* getRecordFile with a busy branch that drops the queue and the flag
getRecordFileDropsQueue(dir, mt, retain, busy, queue, cnt, xml, writeOk) ==
    IF busy = FALSE THEN
        RefreshRun(dir, mt, retain, busy, queue, cnt, xml, writeOk)
    ELSE
        [retResult |-> FALSE,
         deleteProc |-> FALSE,
         fileNeedToDelete |-> << >>,
         fileToDeleteCnt |-> 0,
         recordingXml |-> xml]

\* getRecordFile(): the return value and the globals and file it leaves
getRecordFile(dir, mt, retain, busy, queue, cnt, xml, writeOk) ==
    IF busy = FALSE THEN
        RefreshRun(dir, mt, retain, busy, queue, cnt, xml, writeOk)
    ELSE
        [retResult |-> FALSE,
         deleteProc |-> busy,
         fileNeedToDelete |-> queue,
         fileToDeleteCnt |-> cnt,
         recordingXml |-> xml]

-----------------------------------------------------------------------------
(* Status rows and the recording handlers *)

listUpdtDataInit ==
    << [type |-> "Normal",    status |-> "SUCCESFULL", ext |-> Ext0000, fullname |-> NA],
       [type |-> "Webrtc",    status |-> "SUCCESFULL", ext |-> Ext0000, fullname |-> NA],
       [type |-> "Intercomm", status |-> "SUCCESFULL", ext |-> Ext0000, fullname |-> NA],
       [type |-> "Recording", status |-> "SUCCESFULL", ext |-> Ext0000, fullname |-> NA] >>

updateFailed == [type |-> "Update", status |-> "FAILED"]

\* the <statustype> path segments tried on the recording routes: the row type
\* the routes act on and one that no row has
RecStatusTypes == {"Recording", "Bogus"}

\* [ updtLstT for updtLstT in listUpdtData if (updtLstT['type'] == statustype) ]
UpdtLstIdx(statustype) ==
    {i \in 1..Len(listUpdtData) : listUpdtData[i].type = statustype}

\* the server is between requests: the handlers run one request at a time
\* (app.run serves synchronously), and last is cleared once the reply is out
Idle == last.op = "idle"

\* what a recording request started from
RecPre ==
    [recDir |-> recDir, deleteProc |-> deleteProc,
     fileNeedToDelete |-> fileNeedToDelete, fileToDeleteCnt |-> fileToDeleteCnt,
     recordingXml |-> recordingXml]

\* GET /updatedrecordlist/<statustype>
updatedRecList ==
    /\ Idle
    /\ \E statustype \in RecStatusTypes :
        LET idx == UpdtLstIdx(statustype)
        IN  IF idx = {} THEN
                \* updtLst[0] raises IndexError: the except clause answers
                /\ last' = [op |-> "updatedRecList", statustype |-> statustype,
                            called |-> FALSE, response |-> updateFailed]
                /\ UNCHANGED <<recVars, listUpdtData, hangupData, dirVars>>
            ELSE
                \E writeOk \in BOOLEAN :
                    LET i == CHOOSE j \in idx : \A k \in idx : j <= k
                        r == getRecordFile(recDir, mtime, totRetainRecFile,
                                           deleteProc, fileNeedToDelete,
                                           fileToDeleteCnt, recordingXml, writeOk)
                    IN  /\ statustype = "Recording"
                        /\ deleteProc' = r.deleteProc
                        /\ fileNeedToDelete' = r.fileNeedToDelete
                        /\ fileToDeleteCnt' = r.fileToDeleteCnt
                        /\ recordingXml' = r.recordingXml
                        /\ listUpdtData' =
                               [listUpdtData EXCEPT ![i].status =
                                   IF r.retResult THEN "SUCCESFULL" ELSE "FAILED"]
                        /\ last' = [op |-> "updatedRecList", statustype |-> statustype,
                                    pre |-> RecPre,
                                    afterDrain |-> last.afterDrain,
                                    writeOk |-> writeOk, called |-> TRUE,
                                    retResult |-> r.retResult,
                                    response |-> listUpdtData'[i]]
                        /\ UNCHANGED <<recDir, mtime, totRetainRecFile, reaperAlive,
                                       thr, hangupData, dirVars>>

\* GET /deleterecords/<statustype>/<filedetail>
\* rm runs with stderr=subprocess.STDOUT, so communicate() returns stderr None
\* whether or not rm removed the file, and line 1209 takes the first branch
deleteRecData ==
    /\ Idle
    /\ \E statustype \in RecStatusTypes :
        LET idx == UpdtLstIdx(statustype)
        IN  IF idx = {} THEN
                /\ last' = [op |-> "deleteRecData", statustype |-> statustype,
                            called |-> FALSE, response |-> updateFailed]
                /\ UNCHANGED <<recVars, listUpdtData, hangupData, dirVars>>
            ELSE
                \E filedetail \in RecNames, writeOk \in BOOLEAN :
                    LET i == CHOOSE j \in idx : \A k \in idx : j <= k
                        stderr == "None"
                        dirAfter == recDir \ {filedetail}
                        r == getRecordFile(dirAfter, mtime, totRetainRecFile,
                                           deleteProc, fileNeedToDelete,
                                           fileToDeleteCnt, recordingXml, writeOk)
                    IN  /\ statustype = "Recording"
                        /\ recDir' = dirAfter
                        /\ IF stderr = "None" THEN
                               /\ deleteProc' = r.deleteProc
                               /\ fileNeedToDelete' = r.fileNeedToDelete
                               /\ fileToDeleteCnt' = r.fileToDeleteCnt
                               /\ recordingXml' = r.recordingXml
                               /\ listUpdtData' =
                                      [listUpdtData EXCEPT ![i].status = "SUCCESFULL"]
                           ELSE
                               /\ listUpdtData' =
                                      [listUpdtData EXCEPT ![i].status = "FAILED"]
                               /\ UNCHANGED <<deleteProc, fileNeedToDelete,
                                              fileToDeleteCnt, recordingXml>>
                        /\ last' = [op |-> "deleteRecData", statustype |-> statustype,
                                    filedetail |-> filedetail, pre |-> RecPre,
                                    writeOk |-> writeOk,
                                    rmDone |-> filedetail \in recDir,
                                    called |-> stderr = "None",
                                    retResult |-> r.retResult,
                                    response |-> listUpdtData'[i]]
                        /\ UNCHANGED <<mtime, totRetainRecFile, reaperAlive, thr,
                                       hangupData, dirVars>>

\* the delete thread's loop body after one sleep (lines 1757-1790), taken whole
deleteRecordingFile ==
    /\ Idle
    /\ reaperAlive
    /\ deleteProc = TRUE
    /\ IF fileToDeleteCnt <= Len(fileNeedToDelete) THEN
           /\ recDir' = recDir \ {fileNeedToDelete[a] : a \in 1..fileToDeleteCnt}
           /\ fileNeedToDelete' = << >>
           /\ fileToDeleteCnt' = 0
           /\ deleteProc' = FALSE
           /\ UNCHANGED reaperAlive
       ELSE
           \* fileNeedToDelete[a] raises IndexError and ends the thread
           /\ recDir' = recDir \ {fileNeedToDelete[a] : a \in 1..Len(fileNeedToDelete)}
           /\ reaperAlive' = FALSE
           /\ UNCHANGED <<fileNeedToDelete, fileToDeleteCnt, deleteProc>>
    /\ last' = [op |-> "deleteRecordingFile", pre |-> RecPre]
    /\ UNCHANGED <<mtime, totRetainRecFile, recordingXml, listUpdtData, hangupData,
                   thr, dirVars>>

\* the PBX stores a new recording in the directory that glob reads
recordingStored ==
    /\ Idle
    /\ \E f \in RecNames \ recDir :
        /\ recDir' = recDir \cup {f}
        /\ last' = [op |-> "recordingStored", file |-> f]
        /\ UNCHANGED <<mtime, totRetainRecFile, deleteProc, fileNeedToDelete,
                       fileToDeleteCnt, recordingXml, reaperAlive, thr, listUpdtData,
                       hangupData, dirVars>>

\* the request thread outside getRecordFile(), the delete thread in its sleep
thrInit ==
    [req |-> [pc |-> "idle", recordFile |-> << >>, a |-> 0, list |-> "none",
              cnt |-> 0, started |-> 0],
     del |-> [pc |-> "sleep", n |-> 0, a |-> 0, issued |-> {}]]

hangupDataInit ==
    << [id |-> <<"0", "0", "0">>, callchannel |-> Ext0000, status |-> "TERMINATED"] >>

\* the one record each contact table is declared with (lines 228-257)
contactDummy == [ext |-> Ext0000, fullname |-> NA, type |-> NA, ip |-> NA]
webRtcDummy ==
    [ext |-> Ext0000, fullname |-> NA, pswd |-> NA, ip |-> NA, sip |-> NA, avail |-> NA]

\* module load on a machine where none of the three XML files exists yet:
\* each ET.parse fails and the tables keep their declared record
InitDirFresh ==
    /\ contactListData = <<contactDummy>>
    /\ webRtcContListData = <<webRtcDummy>>
    /\ intercomListData = <<contactDummy>>
    /\ listContactXml = << >>
    /\ registrarlistXml = << >>
    /\ intercomlistXml = << >>
    /\ served = 0

\* module load followed by main(): the thread is started and getRecordFile()
\* runs once over the directory as found
mainRec(dir, retain, mt) ==
    LET r == getRecordFile(dir, mt, retain, FALSE, << >>, 0, <<SentinelRow>>, TRUE)
    IN  /\ recDir = dir
        /\ mtime = mt
        /\ totRetainRecFile = retain
        /\ deleteProc = r.deleteProc
        /\ fileNeedToDelete = r.fileNeedToDelete
        /\ fileToDeleteCnt = r.fileToDeleteCnt
        /\ recordingXml = r.recordingXml
        /\ reaperAlive = TRUE
        /\ thr = thrInit

InitRec ==
    \E dir \in SUBSET RecNames, retain \in 0..MaxRetain :
      \E mt \in [RecNames -> 1..Cardinality(RecNames)] :
        /\ \A f, g \in RecNames : f # g => mt[f] # mt[g]
        /\ mainRec(dir, retain, mt)

\* one start of the recording side, for the runs that exercise other handlers:
\* three files found, one retained, two queued
InitRecOne ==
    mainRec(RecNames, 1, (RecA :> 1) @@ (RecB :> 2) @@ (RecBad :> 3))

\* the reply of the request served last is out: the server waits for the next
\* request; what is kept is whether the delete thread was the last to act
requestDone ==
    /\ ~Idle
    /\ last' = [op |-> "idle", afterDrain |-> last.op = "deleteRecordingFile"]
    /\ UNCHANGED <<recVars, listUpdtData, hangupData, dirVars>>

Init ==
    /\ InitRec
    /\ InitDirFresh
    /\ listUpdtData = listUpdtDataInit
    /\ hangupData = hangupDataInit
    /\ last = [op |-> "idle", afterDrain |-> FALSE]

NextRec ==
    \/ updatedRecList
    \/ deleteRecData
    \/ deleteRecordingFile
    \/ recordingStored
    \/ requestDone

SpecRec == Init /\ [][NextRec]_vars

-----------------------------------------------------------------------------
(* getRecordFile() and deleteRecordingFile() step by step *)

\* The request thread and the delete thread share deleteProc,
\* fileNeedToDelete and fileToDeleteCnt without a lock, and the interpreter
\* may switch threads between any two bytecodes (and does while rm or the
\* XML write blocks). One action below is one read or one write of a global.

\* recording requests started in one behaviour
MaxRequests == 2

\* GET /updatedrecordlist/Recording received: getRecordFile() is entered
reqUpdated ==
    /\ thr.req.pc = "idle"
    /\ thr.req.started < MaxRequests
    /\ thr' = [thr EXCEPT !.req.pc = "glob", !.req.started = @ + 1]
    /\ UNCHANGED <<recDir, mtime, totRetainRecFile, deleteProc, fileNeedToDelete,
                   fileToDeleteCnt, recordingXml, reaperAlive, listUpdtData,
                   hangupData, dirVars, last>>

\* GET /deleterecords/Recording/<filedetail> received: rm of the named file
\* (lines 1205-1207), then getRecordFile() is entered
reqDelete ==
    /\ thr.req.pc = "idle"
    /\ thr.req.started < MaxRequests
    /\ \E filedetail \in recDir : recDir' = recDir \ {filedetail}
    /\ thr' = [thr EXCEPT !.req.pc = "glob", !.req.started = @ + 1]
    /\ UNCHANGED <<mtime, totRetainRecFile, deleteProc, fileNeedToDelete,
                   fileToDeleteCnt, recordingXml, reaperAlive, listUpdtData,
                   hangupData, dirVars, last>>

\* lines 442-449: recordFile, newest first
reqGlob ==
    /\ thr.req.pc = "glob"
    /\ thr' = [thr EXCEPT !.req.pc = "test",
                          !.req.recordFile = SortedByMtimeDesc(recDir, mtime)]
    /\ UNCHANGED <<recDir, mtime, totRetainRecFile, deleteProc, fileNeedToDelete,
                   fileToDeleteCnt, recordingXml, reaperAlive, listUpdtData,
                   hangupData, dirVars, last>>

\* where the loop of line 467 stands at index a >= totRetainRecFile: at the
\* next file to queue, or past the last file
LoopAt(a) == IF a < Len(thr.req.recordFile) THEN "set" ELSE "build"

\* line 464: deleteProc is read; the files of index below totRetainRecFile
\* only feed the locals of the scan
reqTest ==
    /\ thr.req.pc = "test"
    /\ IF deleteProc = FALSE
       THEN thr' = [thr EXCEPT !.req.a = totRetainRecFile,
                               !.req.pc = LoopAt(totRetainRecFile)]
       ELSE thr' = [thr EXCEPT !.req.pc = "idle"]
    /\ UNCHANGED <<recDir, mtime, totRetainRecFile, deleteProc, fileNeedToDelete,
                   fileToDeleteCnt, recordingXml, reaperAlive, listUpdtData,
                   hangupData, dirVars, last>>

\* line 475: deleteProc = True
reqSet ==
    /\ thr.req.pc = "set"
    /\ deleteProc' = TRUE
    /\ thr' = [thr EXCEPT !.req.pc = "load"]
    /\ UNCHANGED <<recDir, mtime, totRetainRecFile, fileNeedToDelete,
                   fileToDeleteCnt, recordingXml, reaperAlive, listUpdtData,
                   hangupData, dirVars, last>>

\* line 477, first half: the list object bound to fileNeedToDelete is loaded
reqLoad ==
    /\ thr.req.pc = "load"
    /\ thr' = [thr EXCEPT !.req.pc = "append", !.req.list = "current"]
    /\ UNCHANGED <<recDir, mtime, totRetainRecFile, deleteProc, fileNeedToDelete,
                   fileToDeleteCnt, recordingXml, reaperAlive, listUpdtData,
                   hangupData, dirVars, last>>

\* line 477, second half: append on the object loaded; when the delete thread
\* has rebound fileNeedToDelete since, the name goes to the list it dropped
reqAppend ==
    /\ thr.req.pc = "append"
    /\ fileNeedToDelete' =
           IF thr.req.list = "current"
           THEN Append(fileNeedToDelete, thr.req.recordFile[thr.req.a + 1])
           ELSE fileNeedToDelete
    /\ thr' = [thr EXCEPT !.req.pc = "rdcnt", !.req.list = "none"]
    /\ UNCHANGED <<recDir, mtime, totRetainRecFile, deleteProc, fileToDeleteCnt,
                   recordingXml, reaperAlive, listUpdtData, hangupData, dirVars,
                   last>>

\* line 479, right-hand side: fileToDeleteCnt is read
reqRdCnt ==
    /\ thr.req.pc = "rdcnt"
    /\ thr' = [thr EXCEPT !.req.pc = "wrcnt", !.req.cnt = fileToDeleteCnt]
    /\ UNCHANGED <<recDir, mtime, totRetainRecFile, deleteProc, fileNeedToDelete,
                   fileToDeleteCnt, recordingXml, reaperAlive, listUpdtData,
                   hangupData, dirVars, last>>

\* line 479, assignment: fileToDeleteCnt = <value read> + 1, and the loop
\* moves to the next file
reqWrCnt ==
    /\ thr.req.pc = "wrcnt"
    /\ fileToDeleteCnt' = thr.req.cnt + 1
    /\ thr' = [thr EXCEPT !.req.pc = LoopAt(thr.req.a + 1), !.req.a = @ + 1,
                          !.req.cnt = 0]
    /\ UNCHANGED <<recDir, mtime, totRetainRecFile, deleteProc, fileNeedToDelete,
                   recordingXml, reaperAlive, listUpdtData, hangupData, dirVars,
                   last>>

\* the rows of lines 567-589 for recordFile with retain files kept: the scan
\* of lines 509-554 only touches locals of the call
KeptRows(recordFile, retain) ==
    LET kept == SubSeq(recordFile, 1, Min(retain, Len(recordFile)))
        st == RecordLoop(kept, 0, Len(kept),
                         [deleteProc |-> FALSE, fileNeedToDelete |-> << >>,
                          fileToDeleteCnt |-> 0,
                          realTotRecFile |-> 0, dataSelect |-> 0, dashCnt |-> 0,
                          tempDateTimeOfCall |-> << >>, tempExtInvol |-> << >>,
                          dateTimeOfCall |-> << >>, extInvol |-> << >>])
    IN  RecordRows(recordFile, st)

\* lines 556-611: the rows of the files kept, and the write of the XML file
reqBuild ==
    /\ thr.req.pc = "build"
    /\ \E writeOk \in BOOLEAN :
        \E built \in {KeptRows(thr.req.recordFile, totRetainRecFile)} :
            recordingXml' = IF ~built.raised /\ writeOk THEN built.rows
                            ELSE recordingXml
    /\ thr' = [thr EXCEPT !.req.pc = "idle", !.req.recordFile = << >>, !.req.a = 0]
    /\ UNCHANGED <<recDir, mtime, totRetainRecFile, deleteProc, fileNeedToDelete,
                   fileToDeleteCnt, reaperAlive, listUpdtData, hangupData, dirVars,
                   last>>

\* lines 1755-1757: the sleep ends and deleteProc is read as True
delTest ==
    /\ thr.del.pc = "sleep"
    /\ deleteProc = TRUE
    /\ thr' = [thr EXCEPT !.del.pc = "range"]
    /\ UNCHANGED <<recDir, mtime, totRetainRecFile, deleteProc, fileNeedToDelete,
                   fileToDeleteCnt, recordingXml, reaperAlive, listUpdtData,
                   hangupData, dirVars, last>>

\* line 1759: range(fileToDeleteCnt) is built from one read of the counter
delRange ==
    /\ thr.del.pc = "range"
    /\ thr' = [thr EXCEPT !.del.pc = "iter", !.del.n = fileToDeleteCnt,
                          !.del.a = 0, !.del.issued = {}]
    /\ UNCHANGED <<recDir, mtime, totRetainRecFile, deleteProc, fileNeedToDelete,
                   fileToDeleteCnt, recordingXml, reaperAlive, listUpdtData,
                   hangupData, dirVars, last>>

\* lines 1761-1765: fileNeedToDelete[a] is read and rm is run on it; an index
\* past the end raises IndexError, which nothing catches: the thread ends
delIter ==
    /\ thr.del.pc = "iter"
    /\ thr.del.a < thr.del.n
    /\ IF thr.del.a < Len(fileNeedToDelete)
       THEN /\ recDir' = recDir \ {fileNeedToDelete[thr.del.a + 1]}
            /\ thr' = [thr EXCEPT !.del.a = @ + 1,
                                  !.del.issued = @ \cup {fileNeedToDelete[thr.del.a + 1]}]
            /\ UNCHANGED reaperAlive
       ELSE /\ thr' = [thr EXCEPT !.del.pc = "dead"]
            /\ reaperAlive' = FALSE
            /\ UNCHANGED recDir
    /\ UNCHANGED <<mtime, totRetainRecFile, deleteProc, fileNeedToDelete,
                   fileToDeleteCnt, recordingXml, listUpdtData, hangupData,
                   dirVars, last>>

\* line 1786: fileNeedToDelete = [] once the loop is over; a list object the
\* request thread has loaded and not yet appended to is no longer the global
delClearQueue ==
    /\ thr.del.pc = "iter"
    /\ thr.del.a >= thr.del.n
    /\ fileNeedToDelete' = << >>
    /\ thr' = [thr EXCEPT !.del.pc = "clearcnt",
                          !.req.list = IF @ = "current" THEN "stale" ELSE @]
    /\ UNCHANGED <<recDir, mtime, totRetainRecFile, deleteProc, fileToDeleteCnt,
                   recordingXml, reaperAlive, listUpdtData, hangupData, dirVars,
                   last>>

\* line 1788: fileToDeleteCnt = 0
delClearCnt ==
    /\ thr.del.pc = "clearcnt"
    /\ fileToDeleteCnt' = 0
    /\ thr' = [thr EXCEPT !.del.pc = "clearproc"]
    /\ UNCHANGED <<recDir, mtime, totRetainRecFile, deleteProc, fileNeedToDelete,
                   recordingXml, reaperAlive, listUpdtData, hangupData, dirVars,
                   last>>

\* line 1790: deleteProc = False, and the thread sleeps again
delClearProc ==
    /\ thr.del.pc = "clearproc"
    /\ deleteProc' = FALSE
    /\ thr' = [thr EXCEPT !.del.pc = "sleep", !.del.n = 0, !.del.a = 0]
    /\ UNCHANGED <<recDir, mtime, totRetainRecFile, fileNeedToDelete,
                   fileToDeleteCnt, recordingXml, reaperAlive, listUpdtData,
                   hangupData, dirVars, last>>

\* the steps of the request thread and of the delete thread
reqStep ==
    \/ reqUpdated
    \/ reqDelete
    \/ reqGlob
    \/ reqTest
    \/ reqSet
    \/ reqLoad
    \/ reqAppend
    \/ reqRdCnt
    \/ reqWrCnt
    \/ reqBuild

delStep ==
    \/ delTest
    \/ delRange
    \/ delIter
    \/ delClearQueue
    \/ delClearCnt
    \/ delClearProc

\* main(): the thread is started, then getRecordFile() is entered for the
\* first time (lines 1800-1813), over three files of which one is retained
InitRace ==
    /\ recDir = RecNames
    /\ mtime = (RecA :> 1) @@ (RecB :> 2) @@ (RecBad :> 3)
    /\ totRetainRecFile = 1
    /\ deleteProc = FALSE
    /\ fileNeedToDelete = << >>
    /\ fileToDeleteCnt = 0
    /\ recordingXml = <<SentinelRow>>
    /\ reaperAlive = TRUE
    /\ thr = [thrInit EXCEPT !.req.pc = "glob"]
    /\ InitDirFresh
    /\ listUpdtData = listUpdtDataInit
    /\ hangupData = hangupDataInit
    /\ last = [op |-> "idle", afterDrain |-> FALSE]

NextRace ==
    \/ reqStep
    \/ delStep

SpecRace == InitRace /\ [][NextRace]_vars

\* a request being served: the steps of getRecordFile() once entered
reqRun ==
    \/ reqGlob
    \/ reqTest
    \/ reqSet
    \/ reqLoad
    \/ reqAppend
    \/ reqRdCnt
    \/ reqWrCnt
    \/ reqBuild

\* both threads are scheduled again and again while they have a step to
\* take: the delete thread runs on, and a request that has entered
\* getRecordFile() runs to its end; nothing is assumed about the arrival of
\* requests
SpecRaceFair == SpecRace /\ WF_vars(delStep) /\ WF_vars(reqRun)

-----------------------------------------------------------------------------
(* Recording catalogue: properties *)

\* the request served last ran getRecordFile() (from either recording route)
Refreshed ==
    /\ last.op \in {"updatedRecList", "deleteRecData"}
    /\ last.called

\* the files getRecordFile() enumerated in the request served last
EnumeratedDir ==
    IF last.op = "deleteRecData" THEN last.pre.recDir \ {last.filedetail}
    ELSE last.pre.recDir

\* the rows of a listing that stand for a file
CatalogEntries(xml) == SelectSeq(xml, LAMBDA row : row # SentinelRow)

CatalogFiles(xml) == {xml[a].FILEPATH : a \in 1..Len(xml)} \ {NA}

\* the listing names exactly the n most recently modified files of dir, newest first
ListsNewest(xml, dir, n) ==
    LET e == CatalogEntries(xml)
    IN  /\ Len(e) = n
        /\ \A a \in 1..Len(e) : e[a].FILEPATH \in dir
        /\ \A a, b \in 1..Len(e) :
               a < b => mtime[e[a].FILEPATH] > mtime[e[b].FILEPATH]
        /\ \A a \in 1..Len(e) : \A f \in dir \ CatalogFiles(e) :
               mtime[f] < mtime[e[a].FILEPATH]

\* C1: a refresh that starts with the deletion queue empty and busy clear,
\* over L > R files (and whose write can succeed), leaves a catalogue of
\* exactly the R most recent files, newest first, and a deletion queue of
\* exactly the other L - R names.
C1_KeepsNewestQueuesRest ==
    ( /\ last.op = "updatedRecList" /\ last.called /\ last.writeOk
      /\ last.pre.fileNeedToDelete = << >>
      /\ last.pre.deleteProc = FALSE
      /\ Cardinality(last.pre.recDir) > totRetainRecFile )
    => /\ ListsNewest(recordingXml, last.pre.recDir, totRetainRecFile)
       /\ Len(fileNeedToDelete) = Cardinality(last.pre.recDir) - totRetainRecFile
       /\ {fileNeedToDelete[a] : a \in 1..Len(fileNeedToDelete)}
              = last.pre.recDir \ CatalogFiles(recordingXml)

\* C2: when the delete thread drains, exactly the queued files are removed,
\* the queue is empty and busy is clear; and the refresh that follows the
\* drain (its write succeeding) lists exactly min(R, remaining) entries.
C2_DrainThenRefresh ==
    /\ last.op = "deleteRecordingFile"
       => /\ recDir = last.pre.recDir
                 \ {last.pre.fileNeedToDelete[a] :
                        a \in 1..Len(last.pre.fileNeedToDelete)}
          /\ fileNeedToDelete = << >>
          /\ deleteProc = FALSE
    /\ ( /\ last.op = "updatedRecList" /\ last.called /\ last.writeOk
         /\ last.afterDrain )
       => Len(CatalogEntries(recordingXml))
              = Min(totRetainRecFile, Cardinality(last.pre.recDir))

\* C3: a getRecordFile() that finds deleteProc set writes no listing and
\* queues nothing: recordinglist.xml, the deletion queue with its counter and
\* the busy flag are as they were before the call.
C3_BusyRefreshChangesNothing ==
    ( Refreshed /\ last.pre.deleteProc = TRUE )
    => /\ recordingXml = last.pre.recordingXml
       /\ fileNeedToDelete = last.pre.fileNeedToDelete
       /\ fileToDeleteCnt = last.pre.fileToDeleteCnt
       /\ deleteProc = last.pre.deleteProc

\* C3 witness: a refresh was declined as busy although the directory it
\* enumerated holds a file the kept listing does not name and its write
\* would have succeeded.
C3_Witness ==
    /\ last.op = "updatedRecList" /\ last.called /\ last.writeOk
    /\ last.pre.deleteProc = TRUE
    /\ last.retResult = FALSE
    /\ \E f \in EnumeratedDir : f \notin CatalogFiles(recordingXml)
    /\ Cardinality(EnumeratedDir) > totRetainRecFile

\* C4: /updatedrecordlist/Recording served while deleteProc is set answers
\* with status BUSY, which is neither FAILED nor SUCCESFULL.
C4_BusyStatus ==
    ( /\ last.op = "updatedRecList" /\ last.called
      /\ last.pre.deleteProc = TRUE )
    => /\ last.response.status = "BUSY"
       /\ last.response.status \notin {"FAILED", "SUCCESFULL"}

-----------------------------------------------------------------------------
(* Call termination: terminateGivenCall *)

SIP == <<"S", "I", "P", "/">>

\* request ids tried: the one of hangupData and one no record has
Id000 == <<"0", "0", "0">>
Id999 == <<"9", "9", "9">>
HgUpIds == {Id000, Id999}

\* target extensions tried; the first is a prefix of the second
Ext1 == <<"1">>
Ext12 == <<"1", "2">>
TargetExts == {Ext1, Ext12}

\* records of "core show channels concise" tried, each ending its line:
\*   SIP/12-a!c!           a channel of extension 12
\*   SIP/12-b!c!           a second channel of extension 12
\*   SIP/3-a!d!SIP/12!     a channel of extension 3 dialling SIP/12
\*   Msg/q!m!              a channel whose name has no '-'
\*   SIP/1!c!              a channel name cut short before its '-'
ChanRec12a == SIP \o <<"1", "2", "-", "a", "!", "c", "!", "\n">>
ChanRec12b == SIP \o <<"1", "2", "-", "b", "!", "c", "!", "\n">>
ChanRec3Dial == SIP \o <<"3", "-", "a", "!", "d", "!">> \o SIP \o <<"1", "2", "!", "\n">>
ChanRecMsg == <<"M", "s", "g", "/", "q", "!", "m", "!", "\n">>
ChanRec1Cut == SIP \o <<"1", "!", "c", "!", "\n">>
ChanRecs == {ChanRec12a, ChanRec12b, ChanRec3Dial, ChanRecMsg, ChanRec1Cut}

\* most records in one listing
MaxListing == 3

RECURSIVE Concat(_)
Concat(seqs) == IF seqs = << >> THEN << >> ELSE Head(seqs) \o Concat(Tail(seqs))

\* the listings tried: every sequence of at most MaxListing of the records
Listings ==
    {Concat(rs) : rs \in UNION {[1..n -> ChanRecs] : n \in 0..MaxListing}}

\* how a subprocess.Popen(['asterisk', '-rx', ...]) followed by communicate()
\* can end: the command ran and succeeded, ran and reported a failure on its
\* output, or could not be started (OSError)
PopenOutcomes == {"ok", "failed", "OSError"}

\* stderr as returned by communicate() for a process opened with
\* stderr=subprocess.STDOUT: None, whatever the command did
CommunicateStderr(outcome) == "None"

\* ChanChar without the break of lines 1701 and 1712: after a hangup the
\* scan goes on with the next token
ChanCharNoBreak(st, oneChar, terminateChan, outcome) ==
    IF oneChar = <<"/">> /\ st.getChan = FALSE THEN
        [st EXCEPT !.getChan = TRUE]
    ELSE IF st.getChan = TRUE /\ oneChar # <<"!">> THEN
        [st EXCEPT !.fullChan = @ \o oneChar]
    ELSE IF st.getChan = TRUE /\ oneChar = <<"!">> THEN
        IF StrIn(<<"-">>, st.fullChan) THEN
            LET fullChan == SIP \o st.fullChan
            IN  IF StrIn(terminateChan, fullChan) THEN
                    [st EXCEPT !.fullChan = << >>,
                               !.getChan = FALSE,
                               !.hangup = Append(@, fullChan),
                               !.status = IF outcome = "OSError" THEN @
                                          ELSE "TERMINATED",
                               !.raised = IF outcome = "OSError" THEN "OSError"
                                          ELSE @]
                ELSE
                    [st EXCEPT !.fullChan = << >>, !.getChan = FALSE]
        ELSE
            [st EXCEPT !.getChan = FALSE]
    ELSE st

\* one character of the scan of lines 1657-1715
\* st: getChan, fullChan, status, hangup (the directives issued), raised, brk
ChanChar(st, oneChar, terminateChan, outcome) ==
    IF oneChar = <<"/">> /\ st.getChan = FALSE THEN
        [st EXCEPT !.getChan = TRUE]
    ELSE IF st.getChan = TRUE /\ oneChar # <<"!">> THEN
        [st EXCEPT !.fullChan = @ \o oneChar]
    ELSE IF st.getChan = TRUE /\ oneChar = <<"!">> THEN
        IF StrIn(<<"-">>, st.fullChan) THEN
            LET fullChan == SIP \o st.fullChan
            IN  IF StrIn(terminateChan, fullChan) THEN
                    IF outcome = "OSError" THEN
                        [st EXCEPT !.fullChan = fullChan,
                                   !.hangup = Append(@, fullChan),
                                   !.raised = "OSError",
                                   !.brk = TRUE]
                    ELSE IF CommunicateStderr(outcome) = "None" THEN
                        [st EXCEPT !.fullChan = fullChan,
                                   !.hangup = Append(@, fullChan),
                                   !.status = "TERMINATED",
                                   !.brk = TRUE]
                    ELSE
                        [st EXCEPT !.fullChan = fullChan,
                                   !.hangup = Append(@, fullChan),
                                   !.status = "ERROR",
                                   !.brk = TRUE]
                ELSE
                    [st EXCEPT !.fullChan = << >>, !.getChan = FALSE]
        ELSE
            [st EXCEPT !.getChan = FALSE]
    ELSE st

\* for b in range(0, chanIdLen + 1): oneChar = mid(chan, b, 1)
RECURSIVE ChanScan(_, _, _, _, _)
ChanScan(chan, b, st, terminateChan, outcome) ==
    IF b > Len(chan) \/ st.brk THEN st
    ELSE ChanScan(chan, b + 1,
                  ChanChar(st, mid(chan, b, 1), terminateChan, outcome),
                  terminateChan, outcome)

\* lines 1640-1739: what the handler makes of the listing. status0 is the
\* status the record holds on entry; listed and outcome are how the listing
\* command and the hangup command end
ResolveChannel(status0, callchannel, chan, listed, outcome) ==
    LET terminateChan == SIP \o callchannel
        st0 == [getChan |-> FALSE, fullChan |-> << >>, status |-> status0,
                hangup |-> << >>, raised |-> "none", brk |-> FALSE]
    IN  IF listed = "OSError" THEN
            [st0 EXCEPT !.raised = "OSError"]
        ELSE IF CommunicateStderr(listed) = "None" THEN
            IF StrIn(terminateChan, chan) THEN
                ChanScan(chan, 0, st0, terminateChan, outcome)
            ELSE
                [st0 EXCEPT !.status = "ERROR"]
        ELSE
            [st0 EXCEPT !.status = "ERROR"]

\* HgupIdx without the test on the id: every record of the table is taken
HgupIdxAnyId(hgUpId) == 1..Len(hangupData)

\* [ hgupP for hgupP in hangupData if (hgupP['id'] == hgUpId) ]
HgupIdx(hgUpId) == {i \in 1..Len(hangupData) : hangupData[i].id = hgUpId}

\* PUT /terminatecall/<hgUpId>
\* hasKey: 'callchannel' in request.json
terminateGivenCall ==
    /\ Idle
    /\ \E hgUpId \in HgUpIds, hasKey \in BOOLEAN :
        LET idx == HgupIdx(hgUpId)
        IN  IF ~hasKey THEN
                \* nothing is done: the filtered list is returned as it is
                /\ last' = [op |-> "terminateGivenCall", hgUpId |-> hgUpId,
                            hasKey |-> FALSE, pre |-> hangupData,
                            commands |-> 0, hangup |-> << >>, raised |-> "none",
                            response |-> [i \in 1..Cardinality(idx) |->
                                            hangupData[CHOOSE j \in idx :
                                                Cardinality({k \in idx : k <= j}) = i]]]
                /\ UNCHANGED <<recVars, listUpdtData, hangupData, dirVars>>
            ELSE IF idx = {} THEN
                \* hgup[0] raises IndexError at line 1613; nothing catches it
                /\ last' = [op |-> "terminateGivenCall", hgUpId |-> hgUpId,
                            hasKey |-> TRUE, pre |-> hangupData,
                            commands |-> 0, hangup |-> << >>,
                            raised |-> "IndexError", response |-> << >>]
                /\ UNCHANGED <<recVars, listUpdtData, hangupData, dirVars>>
            ELSE
                \E callchannel \in TargetExts, chan \in Listings,
                   listed \in PopenOutcomes, outcome \in PopenOutcomes :
                    LET i == CHOOSE j \in idx : \A k \in idx : j <= k
                        r == ResolveChannel(hangupData[i].status, callchannel,
                                            chan, listed, outcome)
                    IN  /\ hangupData' =
                               [hangupData EXCEPT ![i].callchannel = callchannel,
                                                  ![i].status = r.status]
                        /\ last' = [op |-> "terminateGivenCall", hgUpId |-> hgUpId,
                                    hasKey |-> TRUE, pre |-> hangupData,
                                    callchannel |-> callchannel, chan |-> chan,
                                    listed |-> listed,
                                    outcome |-> IF r.hangup = << >> THEN "none"
                                                ELSE outcome,
                                    commands |-> 1 + Len(r.hangup),
                                    hangup |-> r.hangup, raised |-> r.raised,
                                    response |-> IF r.raised = "none"
                                                 THEN <<hangupData'[i]>> ELSE << >>]
                        /\ UNCHANGED <<recVars, listUpdtData, dirVars>>

InitTerm ==
    /\ InitRecOne
    /\ InitDirFresh
    /\ listUpdtData = listUpdtDataInit
    /\ hangupData = hangupDataInit
    /\ last = [op |-> "idle", afterDrain |-> FALSE]

NextTerm ==
    \/ terminateGivenCall
    \/ requestDone

SpecTerm == InitTerm /\ [][NextTerm]_vars

-----------------------------------------------------------------------------
(* Call termination: properties *)

\* the listing as records: the text between line ends
RECURSIVE ListingRecords(_)
ListingRecords(chan) ==
    IF chan = << >> THEN << >>
    ELSE IF \E k \in 1..Len(chan) : chan[k] = "\n" THEN
        LET k == CHOOSE j \in 1..Len(chan) :
                     chan[j] = "\n" /\ \A m \in 1..(j - 1) : chan[m] # "\n"
        IN  <<SubSeq(chan, 1, k - 1)>> \o ListingRecords(SubSeq(chan, k + 1, Len(chan)))
    ELSE <<chan>>

\* the first field of a record: the text before its first '!'
FirstField(rec) ==
    IF \E k \in 1..Len(rec) : rec[k] = "!" THEN
        SubSeq(rec, 1, (CHOOSE j \in 1..Len(rec) :
                            rec[j] = "!" /\ \A m \in 1..(j - 1) : rec[m] # "!") - 1)
    ELSE rec

StartsWith(s, prefix) ==
    Len(s) >= Len(prefix) /\ SubSeq(s, 1, Len(prefix)) = prefix

\* some record's first field starts with SIP/{ext}-
HasChannelOf(chan, ext) ==
    \E a \in 1..Len(ListingRecords(chan)) :
        StartsWith(FirstField(ListingRecords(chan)[a]), SIP \o ext \o <<"-">>)

\* the request served last was a terminate of a known id that got its listing
Terminated ==
    /\ last.op = "terminateGivenCall"
    /\ last.hasKey
    /\ HgupIdx(last.hgUpId) # {}
    /\ last.listed # "OSError"

\* the status the record of the request served last holds now
StatusNow ==
    hangupData[CHOOSE i \in HgupIdx(last.hgUpId) : TRUE].status

\* C5: when no record of the listing has a first field starting with
\* SIP/{ext}-, terminate sets and returns ERROR and issues no hangup.
C5_NoChannelNoHangup ==
    ( Terminated /\ ~HasChannelOf(last.chan, last.callchannel) )
    => /\ last.hangup = << >>
       /\ StatusNow = "ERROR"
       /\ last.raised = "none"
       /\ last.response[1].status = "ERROR"

\* C6: when terminate issues the hangup, the status is TERMINATED if the
\* command succeeded and ERROR if it reported a failure or could not be run.
C6_StatusFollowsHangup ==
    ( Terminated /\ last.hangup # << >> )
    => /\ last.outcome = "ok" => StatusNow = "TERMINATED"
       /\ last.outcome \in {"failed", "OSError"} => StatusNow = "ERROR"

ChannelStates == {"IDLE", "TERMINATED", "ERROR"}

\* C7: the state a terminate returns is decided by the listing and by the
\* hangup issued in that call, not by the status an earlier call left: it is
\* the same whatever that status was, and it is TERMINATED only when a hangup
\* was issued and succeeded in this call.
C7_StatusIsFresh ==
    ( Terminated /\ last.raised = "none" )
    => /\ \A s0 \in ChannelStates :
              ResolveChannel(s0, last.callchannel, last.chan, last.listed,
                             IF last.hangup = << >> THEN "ok" ELSE last.outcome).status
                  = last.response[1].status
       /\ last.response[1].status = "TERMINATED"
              => last.hangup # << >> /\ last.outcome = "ok"

\* C8: a terminate for an id that no record of the table has is answered
\* with a failure result, not with an exception that leaves the handler; it
\* issues no PBX command and leaves the table as it was; and the table holds
\* the same ids in every state.
C8_UnknownIdIsAnswered ==
    /\ ( /\ last.op = "terminateGivenCall" /\ last.hasKey
         /\ HgupIdx(last.hgUpId) = {} )
       => /\ last.raised = "none"
          /\ last.commands = 0
          /\ hangupData = last.pre
    /\ [i \in 1..Len(hangupData) |-> hangupData[i].id]
           = [i \in 1..Len(hangupDataInit) |-> hangupDataInit[i].id]

-----------------------------------------------------------------------------
(* Directory synchronisation: what asterisk.config.Config hands to the code *)

\* one item and one category of a parsed configuration file
Item(name, value) == [name |-> name, value |-> value]
Category(name, items) == [name |-> name, items |-> items]

General == <<"g", "e", "n", "e", "r", "a", "l">>
Tgprovider == <<"t", "g", "p", "r", "o", "v", "i", "d", "e", "r">>
SipWebrtc == <<"S", "I", "P", " ", "W", "E", "B", "R", "T", "C">>
FXO == <<"F", "X", "O">>

E61 == <<"6", "1">>
E62 == <<"6", "2">>
E63 == <<"6", "3">>
E65 == <<"6", "5">>
E70 == <<"7", "0">>
E10 == <<"1", "0">>

\* users.conf sections: fullname is "<name> <type>:", the type being what
\* lines 929-936 read between the first space and the colon
Users61a == Category(E61, <<Item("fullname", <<"a", " ", "N", ":">>)>>)
Users61b == Category(E61, <<Item("fullname", <<"b", " ", "N", ":">>)>>)
Users62w ==
    Category(E62, <<Item("fullname", <<"c", " ">> \o SipWebrtc \o <<":">>),
                    Item("hasvoicemail", <<"n">>),
                    Item("secret", <<"p">>)>>)
Users62x ==
    Category(E62, <<Item("fullname", <<"x", " ">> \o SipWebrtc \o <<":">>),
                    Item("secret", <<"p">>)>>)
Users65w ==
    Category(E65, <<Item("fullname", <<"d", " ">> \o SipWebrtc \o <<":">>),
                    Item("secret", <<"q">>)>>)
Users63fxo == Category(E63, <<Item("fullname", <<"e", " ">> \o FXO \o <<":">>)>>)

\* the users.conf contents a synchronisation may find: two extensions; the
\* same two reordered, one renamed and a third added; both removed
UsersA == <<Category(General, << >>), Users61a, Users62w>>
UsersB == <<Category(General, << >>), Users65w, Users62x, Users61b>>
UsersC == <<Category(General, << >>), Users63fxo>>
UsersConfs == {UsersA, UsersB, UsersC}

\* sip.conf sections: callerid is "<type>:<name><ext>"
Sip61 ==
    Category(E61, <<Item("type", <<"f">>),
                    Item("callerid", <<"N", ":", "s", "<", "6", "1", ">">>)>>)
Sip70fxo ==
    Category(E70, <<Item("callerid", FXO \o <<":", "t", "<", "7", "0", ">">>)>>)
SipNone == <<Category(General, << >>), Category(Tgprovider, << >>)>>
SipSome == <<Category(General, << >>), Sip61, Sip70fxo>>
SipConfs == {SipNone, SipSome}

\* extensions.conf contexts
Intercomm == <<"i", "n", "t", "e", "r", "c", "o", "m", "m">>
Conferences == <<"c", "o", "n", "f", "e", "r", "e", "n", "c", "e", "s">>
Icom10a == Category(Intercomm \o <<"-", "1", "0", "-", "a">>, << >>)
Icom10z == Category(Intercomm \o <<"-", "1", "0", "-", "z">>, << >>)
Conf20 == Category(Conferences \o <<"-", "2", "0", "-", "b", "-", "c">>, << >>)
\* the sample context name of line 678: intercom-1010-Bilik_SENJATA
Intercom == <<"i", "n", "t", "e", "r", "c", "o", "m">>
E1010 == <<"1", "0", "1", "0">>
BilikSenjata == <<"B", "i", "l", "i", "k", "_", "S", "E", "N", "J", "A", "T", "A">>
IntercomBilik == Category(Intercom \o <<"-">> \o E1010 \o <<"-">> \o BilikSenjata, << >>)
Default == Category(<<"d", "e", "f", "a", "u", "l", "t">>, << >>)
ExtensionsA == <<Default, Icom10a, Conf20>>
ExtensionsB == <<Conf20, Icom10z>>
ExtensionsC == <<Default, IntercomBilik>>
ExtensionsConfs == {ExtensionsA, ExtensionsB, ExtensionsC}

\* how asterisk.config.Config(path) ends: a parsed file, ParseError, or an
\* IOError for a path that cannot be opened
LoadOutcomes == {"ok", "ParseError", "IOError"}

\* the <extNo> path segment of the update routes
Dummy == <<"d", "u", "m", "m", "y">>
Hints == {E62, E10, Dummy}

\* update requests for the contact tables served in one behaviour
MaxServed == 2

\* s.replace(old, new)
RECURSIVE PyReplace(_, _, _)
PyReplace(s, old, new) ==
    IF Len(s) < Len(old) \/ old = << >> THEN s
    ELSE IF SubSeq(s, 1, Len(old)) = old
         THEN new \o PyReplace(SubSeq(s, Len(old) + 1, Len(s)), old, new)
         ELSE <<Head(s)>> \o PyReplace(Tail(s), old, new)

\* s.find(c): index of the first occurrence counted from 0, -1 without one
PyFind(s, c) ==
    LET at == {k \in 1..Len(s) : s[k] = c}
    IN  IF at = {} THEN -1 ELSE (CHOOSE k \in at : \A j \in at : k <= j) - 1

-----------------------------------------------------------------------------
(* Directory synchronisation: the table update shared by the three parsers *)

\* position of the first record of list with this ext, 0 without one:
\* extDB[0] of [ extDBB for extDBB in list if (extDBB['ext'] == ext) ]
ExtDB0(list, ext) ==
    LET at == {k \in 1..Len(list) : list[k].ext = ext}
    IN  IF at = {} THEN 0 ELSE CHOOSE k \in at : \A j \in at : k <= j

\* retExtNo, retFullNme after one section: set when the section is the one
\* the caller named and the record's fullname differs from the section's
RetOf(ret, extnNumber, extNumber, oldName, extName) ==
    IF extnNumber = extNumber /\ oldName # extName
    THEN [retExtNo |-> extNumber, retFullNme |-> extName]
    ELSE ret

\* the try/except of a NORMAL or INTERCOM section: the first section of a run
\* overwrites record 0, a later one updates the record of its extension, and
\* the IndexError of a missing record appends a new one
UpdateContact(list, frst, ret, extnNumber, extNumber, extName, extType) ==
    IF frst = FALSE
    THEN [list |-> [list EXCEPT ![1] = [@ EXCEPT !.ext = extNumber,
                                                 !.fullname = extName,
                                                 !.type = extType]],
          ret  |-> RetOf(ret, extnNumber, extNumber, list[1].fullname, extName)]
    ELSE LET i == ExtDB0(list, extNumber)
         IN  IF i = 0
             THEN [list |-> Append(list, [ext |-> extNumber, fullname |-> extName,
                                          type |-> extType, ip |-> NA]),
                   ret  |-> ret]
             ELSE [list |-> [list EXCEPT ![i] = [@ EXCEPT !.fullname = extName,
                                                          !.type = extType]],
                   ret  |-> RetOf(ret, extnNumber, extNumber, list[i].fullname,
                                  extName)]

\* the try/except of a WEBRTC section
UpdateWebRtc(list, frst, ret, extnNumber, extNumber, extName, extSecret) ==
    IF frst = FALSE
    THEN [list |-> [list EXCEPT ![1] = [@ EXCEPT !.ext = extNumber,
                                                 !.fullname = extName,
                                                 !.pswd = extSecret]],
          ret  |-> RetOf(ret, extnNumber, extNumber, list[1].fullname, extName)]
    ELSE LET i == ExtDB0(list, extNumber)
         IN  IF i = 0
             THEN [list |-> Append(list, [ext |-> extNumber, fullname |-> extName,
                                          pswd |-> extSecret, ip |-> NA,
                                          sip |-> NA, avail |-> NA]),
                   ret  |-> ret]
             ELSE [list |-> [list EXCEPT ![i] = [@ EXCEPT !.fullname = extName,
                                                          !.pswd = extSecret]],
                   ret  |-> RetOf(ret, extnNumber, extNumber, list[i].fullname,
                                  extName)]

\* an INFO row of listContact.xml and intercomlist.xml
ContactRow(extData) ==
    [IPADDR |-> extData.ip, LOCATION |-> extData.fullname, CALLID |-> extData.ext,
     SERVERID |-> NA, TYPE |-> extData.type]

\* an INFO/SERVER row of registrarlist.xml
RegistrarRow(extData) ==
    [IPADDR |-> extData.ip, LOCATION |-> extData.fullname, AVAIL |-> extData.avail,
     USERNAME |-> extData.ext, SIPADDR |-> extData.sip, PSWD |-> extData.pswd]

\* ContactRows with only the row written while firstContactXml is False
ContactRowsFirstOnly(list) == <<ContactRow(list[1])>>

ContactRows(list) == [k \in 1..Len(list) |-> ContactRow(list[k])]
RegistrarRows(list) == [k \in 1..Len(list) |-> RegistrarRow(list[k])]

NoRet == [retExtNo |-> << >>, retFullNme |-> << >>]

-----------------------------------------------------------------------------
(* getIntercomList *)

\* IcomChar with the location ended by a third hyphen
IcomCharThirdHyphen(st, oneChar) ==
    IF st.flagCnt = 0
    THEN IF oneChar # <<"-">> THEN [st EXCEPT !.extType = @ \o oneChar]
                               ELSE [st EXCEPT !.flagCnt = 1]
    ELSE IF st.flagCnt = 1
    THEN IF oneChar # <<"-">> THEN [st EXCEPT !.extNo = @ \o oneChar]
                               ELSE [st EXCEPT !.flagCnt = 2]
    ELSE IF st.flagCnt = 2
    THEN IF oneChar # <<"-">> THEN [st EXCEPT !.extFullName = @ \o oneChar]
                               ELSE [st EXCEPT !.flagCnt = 3]
    ELSE st

\* one character of the context name: type, number and location are split
\* at the first two hyphens
IcomChar(st, oneChar) ==
    IF st.flagCnt = 0
    THEN IF oneChar # <<"-">> THEN [st EXCEPT !.extType = @ \o oneChar]
                               ELSE [st EXCEPT !.flagCnt = 1]
    ELSE IF st.flagCnt = 1
    THEN IF oneChar # <<"-">> THEN [st EXCEPT !.extNo = @ \o oneChar]
                               ELSE [st EXCEPT !.flagCnt = 2]
    ELSE [st EXCEPT !.extFullName = @ \o oneChar]

RECURSIVE IcomScan(_, _, _)
IcomScan(intercomData, a, st) ==
    IF a > Len(intercomData) THEN st
    ELSE IcomScan(intercomData, a + 1, IcomChar(st, mid(intercomData, a, 1)))

IsIntercomCategory(name) ==
    StrIn(Intercomm, name) \/ StrIn(Conferences \o <<"-">>, name)

RECURSIVE IcomLoop(_, _, _, _)
IcomLoop(categories, k, extnNumber, st) ==
    IF k > Len(categories) THEN st
    ELSE IF ~IsIntercomCategory(categories[k].name)
         THEN IcomLoop(categories, k + 1, extnNumber, st)
         ELSE LET p == IcomScan(categories[k].name, 0,
                                [flagCnt |-> 0, extType |-> << >>, extNo |-> << >>,
                                 extFullName |-> << >>])
                  u == UpdateContact(st.list, st.firstDatUpdt, st.ret, extnNumber,
                                     p.extNo, p.extFullName, p.extType)
              IN  IcomLoop(categories, k + 1, extnNumber,
                           [list |-> u.list, ret |-> u.ret,
                            firstDatUpdt |-> TRUE])

\* getIntercomList(extnNumber, typeUpdt) with intercomlist.xml holding xml:
\* the table is reset before extensions.conf is opened; tuple tells a
\* (retResult, retExtNo, retFullNme) return from a bare retResult
getIntercomList(extnNumber, load, conf, writeOk, xml) ==
    IF load = "IOError"
    THEN [raised |-> "IOError", tuple |-> FALSE, retResult |-> FALSE, ret |-> NoRet,
          list |-> <<contactDummy>>, xml |-> xml]
    ELSE IF load = "ParseError"
    THEN [raised |-> "none", tuple |-> FALSE, retResult |-> FALSE, ret |-> NoRet,
          list |-> <<contactDummy>>, xml |-> xml]
    ELSE LET st == IcomLoop(conf, 1, extnNumber,
                            [list |-> <<contactDummy>>, ret |-> NoRet,
                             firstDatUpdt |-> FALSE])
         IN  IF writeOk
             THEN [raised |-> "none", tuple |-> TRUE, retResult |-> TRUE,
                   ret |-> st.ret, list |-> st.list, xml |-> ContactRows(st.list)]
             ELSE [raised |-> "none", tuple |-> FALSE, retResult |-> FALSE,
                   ret |-> NoRet, list |-> st.list, xml |-> xml]

-----------------------------------------------------------------------------
(* getContactListFromSip and getContactList *)

\* the first callerid item of a sip.conf section, 0 without one
CallerIdAt(items) ==
    LET at == {k \in 1..Len(items) : items[k].name = "callerid"}
    IN  IF at = {} THEN 0 ELSE CHOOSE k \in at : \A j \in at : k <= j

RECURSIVE SipLoop(_, _, _)
SipLoop(categories, k, st) ==
    IF k > Len(categories) THEN st
    ELSE IF categories[k].name = General \/ categories[k].name = Tgprovider
         THEN SipLoop(categories, k + 1, st)
         ELSE LET extNumber == categories[k].name
                  c == CallerIdAt(categories[k].items)
                  extName ==
                      IF c = 0 THEN st.extName
                      ELSE PyReplace(PyReplace(categories[k].items[c].value,
                                               <<"<">> \o extNumber \o <<">">>, << >>),
                                     <<"\"">>, << >>)
                  extNLen == PyFind(extName, ":")
                  extType == IF c = 0 \/ extNLen <= 0 THEN << >>
                             ELSE SubSeq(extName, 1, extNLen)
              IN  IF extType # FXO /\ st.typeUpdt = "Normal"
                  THEN SipLoop(categories, k + 1,
                           IF ~st.frstNormTypData
                           THEN [st EXCEPT !.extName = extName,
                                           !.frstNormTypData = TRUE,
                                           !.list[1].ext = extNumber,
                                           !.list[1].fullname = extName,
                                           !.list[1].type = extType]
                           ELSE [st EXCEPT !.extName = extName,
                                           !.list = Append(@,
                                               [ext |-> extNumber, fullname |-> extName,
                                                type |-> extType, ip |-> NA])])
                  ELSE SipLoop(categories, k + 1, [st EXCEPT !.extName = extName])

\* getContactListFromSip(typeUpdt, frstNormTypData) on contactListData = list:
\* either failure to load sip.conf ends in sys.exit(1)
getContactListFromSip(typeUpdt, frstNormTypData, load, conf, list) ==
    IF load # "ok"
    THEN [raised |-> "SystemExit", list |-> list]
    ELSE [raised |-> "none",
          list |-> SipLoop(conf, 1, [typeUpdt |-> typeUpdt,
                                     frstNormTypData |-> frstNormTypData,
                                     extName |-> << >>, list |-> list]).list]

\* one character of fullname (lines 929-936); done stands for the break
TypeChar(st, oneChar) ==
    IF st.done THEN st
    ELSE IF oneChar = <<" ">> /\ st.extTypeStrt = FALSE
    THEN [st EXCEPT !.extTypeStrt = TRUE]
    ELSE IF oneChar # <<":">> /\ st.extTypeStrt = TRUE
    THEN [st EXCEPT !.extType = @ \o oneChar]
    ELSE IF oneChar = <<":">> /\ st.extTypeStrt = TRUE
    THEN [st EXCEPT !.done = TRUE]
    ELSE st

RECURSIVE TypeScan(_, _, _)
TypeScan(extName, a, st) ==
    IF a > Len(extName) THEN st
    ELSE TypeScan(extName, a + 1, TypeChar(st, mid(extName, a, 1)))

\* the item loop of one users.conf section (lines 923-942)
RECURSIVE ItemLoop(_, _, _)
ItemLoop(items, k, st) ==
    IF k > Len(items) THEN st
    ELSE IF items[k].name = "fullname"
    THEN LET t == TypeScan(items[k].value, 0,
                           [extTypeStrt |-> st.extTypeStrt, extType |-> st.extType,
                            done |-> FALSE])
         IN  ItemLoop(items, k + 1, [st EXCEPT !.extName = items[k].value,
                                               !.extTypeStrt = t.extTypeStrt,
                                               !.extType = t.extType])
    ELSE IF st.extType # SipWebrtc THEN st
    ELSE IF items[k].name = "secret" THEN [st EXCEPT !.extSecret = items[k].value]
    ELSE ItemLoop(items, k + 1, st)

\* the section loop of users.conf (lines 915-1040); extName and extSecret
\* are carried from one section to the next
RECURSIVE UsersLoop(_, _, _, _, _)
UsersLoop(categories, k, extnNumber, typeUpdt, st) ==
    IF k > Len(categories) THEN st
    ELSE IF categories[k].name = General
         THEN UsersLoop(categories, k + 1, extnNumber, typeUpdt, st)
         ELSE LET extNumber == categories[k].name
                  it == ItemLoop(categories[k].items, 1,
                                 [extName |-> st.extName, extSecret |-> st.extSecret,
                                  extTypeStrt |-> FALSE, extType |-> << >>])
                  st1 == [st EXCEPT !.extName = it.extName,
                                    !.extSecret = it.extSecret]
              IN  IF it.extType = SipWebrtc /\ typeUpdt = "Webrtc"
                  THEN LET u == UpdateWebRtc(st.webrtc, st.frstWRtcTypData, st.ret,
                                             extnNumber, extNumber, it.extName,
                                             it.extSecret)
                       IN  UsersLoop(categories, k + 1, extnNumber, typeUpdt,
                                     [st1 EXCEPT !.webrtc = u.list, !.ret = u.ret,
                                                 !.frstWRtcTypData = TRUE])
                  ELSE IF it.extType # FXO /\ typeUpdt = "Normal"
                  THEN LET u == UpdateContact(st.contact, st.frstNormTypData, st.ret,
                                              extnNumber, extNumber, it.extName,
                                              it.extType)
                       IN  UsersLoop(categories, k + 1, extnNumber, typeUpdt,
                                     [st1 EXCEPT !.contact = u.list, !.ret = u.ret,
                                                 !.frstNormTypData = TRUE])
                  ELSE UsersLoop(categories, k + 1, extnNumber, typeUpdt, st1)

\* getContactList with the reset of contactListData taken for either kind
getContactListResetAnyKind(extnNumber, typeUpdt, uLoad, uConf, sLoad, sConf, writeOk, contact, webrtc, cxml, rxml) ==
    LET contact0 == <<contactDummy>>
        failed(raised, c, w) ==
            [raised |-> raised, tuple |-> FALSE, retResult |-> FALSE, ret |-> NoRet,
             contact |-> c, webrtc |-> w, cxml |-> cxml, rxml |-> rxml]
    IN  IF uLoad = "IOError" THEN failed("IOError", contact0, webrtc)
        ELSE IF uLoad = "ParseError" THEN failed("none", contact0, webrtc)
        ELSE LET st == UsersLoop(uConf, 1, extnNumber, typeUpdt,
                                 [extName |-> << >>, extSecret |-> << >>,
                                  frstNormTypData |-> FALSE,
                                  frstWRtcTypData |-> FALSE,
                                  contact |-> contact0, webrtc |-> webrtc,
                                  ret |-> NoRet])
                 sip == getContactListFromSip(typeUpdt, st.frstNormTypData,
                                              sLoad, sConf, st.contact)
             IN  IF sip.raised # "none" THEN failed(sip.raised, sip.list, st.webrtc)
                 ELSE IF ~writeOk THEN failed("none", sip.list, st.webrtc)
                 ELSE [raised |-> "none", tuple |-> TRUE, retResult |-> TRUE,
                       ret |-> st.ret, contact |-> sip.list, webrtc |-> st.webrtc,
                       cxml |-> IF typeUpdt = "Normal" THEN ContactRows(sip.list)
                                ELSE cxml,
                       rxml |-> IF typeUpdt = "Normal" THEN rxml
                                ELSE RegistrarRows(st.webrtc)]

\* getContactList(extnNumber, typeUpdt) on the two tables and their files
getContactList(extnNumber, typeUpdt, uLoad, uConf, sLoad, sConf, writeOk, contact, webrtc, cxml, rxml) ==
    LET contact0 == IF typeUpdt = "Normal" THEN <<contactDummy>> ELSE contact
        failed(raised, c, w) ==
            [raised |-> raised, tuple |-> FALSE, retResult |-> FALSE, ret |-> NoRet,
             contact |-> c, webrtc |-> w, cxml |-> cxml, rxml |-> rxml]
    IN  IF uLoad = "IOError" THEN failed("IOError", contact0, webrtc)
        ELSE IF uLoad = "ParseError" THEN failed("none", contact0, webrtc)
        ELSE LET st == UsersLoop(uConf, 1, extnNumber, typeUpdt,
                                 [extName |-> << >>, extSecret |-> << >>,
                                  frstNormTypData |-> FALSE,
                                  frstWRtcTypData |-> FALSE,
                                  contact |-> contact0, webrtc |-> webrtc,
                                  ret |-> NoRet])
                 sip == getContactListFromSip(typeUpdt, st.frstNormTypData,
                                              sLoad, sConf, st.contact)
             IN  IF sip.raised # "none" THEN failed(sip.raised, sip.list, st.webrtc)
                 ELSE IF ~writeOk THEN failed("none", sip.list, st.webrtc)
                 ELSE [raised |-> "none", tuple |-> TRUE, retResult |-> TRUE,
                       ret |-> st.ret, contact |-> sip.list, webrtc |-> st.webrtc,
                       cxml |-> IF typeUpdt = "Normal" THEN ContactRows(sip.list)
                                ELSE cxml,
                       rxml |-> IF typeUpdt = "Normal" THEN rxml
                                ELSE RegistrarRows(st.webrtc)]

-----------------------------------------------------------------------------
(* The update handlers of the contact tables *)

\* what a directory request started from
DirPre ==
    [contactListData |-> contactListData, webRtcContListData |-> webRtcContListData,
     intercomListData |-> intercomListData, listContactXml |-> listContactXml,
     registrarlistXml |-> registrarlistXml, intercomlistXml |-> intercomlistXml,
     listUpdtData |-> listUpdtData]

\* the row a handler returns after a call that gave back a three-tuple
RowAfter(row, r) ==
    IF r.retResult
    THEN [row EXCEPT !.ext = IF r.ret.retExtNo # << >> THEN r.ret.retExtNo ELSE NA,
                     !.fullname = IF r.ret.retFullNme # << >> THEN r.ret.retFullNme
                                  ELSE NA,
                     !.status = "SUCCESFULL"]
    ELSE [row EXCEPT !.status = "FAILED"]

ListStatusTypes == {"Normal", "Webrtc", "Intercomm", "Bogus"}
IComStatusTypes == {"Intercomm", "Normal", "Bogus"}

\* GET /updatedlist/<statustype>/<extNo>
\* a bare False from getContactList fails the three-way unpacking, and the
\* bare except answers updateFailed for that and for anything raised
updatedList ==
    /\ Idle
    /\ served < MaxServed
    /\ served' = served + 1
    /\ \E statustype \in ListStatusTypes, extNo \in Hints :
           LET idx == UpdtLstIdx(statustype)
               i == CHOOSE k \in idx : TRUE
           IN  IF idx = {} \/ statustype \notin {"Normal", "Webrtc"}
               THEN /\ last' = [op |-> "updatedList", statustype |-> statustype,
                                extNo |-> extNo, called |-> FALSE,
                                response |-> IF idx = {} THEN updateFailed
                                             ELSE listUpdtData[i]]
                    /\ UNCHANGED <<recVars, listUpdtData, hangupData,
                                   contactListData, webRtcContListData,
                                   intercomListData, listContactXml,
                                   registrarlistXml, intercomlistXml>>
               ELSE \E uLoad \in LoadOutcomes, uConf \in UsersConfs,
                       sLoad \in LoadOutcomes, sConf \in SipConfs,
                       writeOk \in BOOLEAN :
                        /\ (uLoad # "ok") => (uConf = UsersA /\ sLoad = "ok")
                        /\ (uLoad # "ok" \/ sLoad # "ok") => (sConf = SipNone /\ writeOk)
                        /\ \E r \in {getContactList(extNo, statustype, uLoad, uConf,
                                                     sLoad, sConf, writeOk,
                                                     contactListData, webRtcContListData,
                                                     listContactXml, registrarlistXml)} :
                            /\ contactListData' = r.contact
                            /\ webRtcContListData' = r.webrtc
                            /\ listContactXml' = r.cxml
                            /\ registrarlistXml' = r.rxml
                            /\ listUpdtData' =
                                   IF r.tuple
                                   THEN [listUpdtData EXCEPT ![i] = RowAfter(@, r)]
                                   ELSE listUpdtData
                            /\ last' = [op |-> "updatedList",
                                        statustype |-> statustype, extNo |-> extNo,
                                        called |-> TRUE, pre |-> DirPre,
                                        uLoad |-> uLoad, uConf |-> uConf,
                                        sLoad |-> sLoad, sConf |-> sConf,
                                        writeOk |-> writeOk, raised |-> r.raised,
                                        retResult |-> r.retResult,
                                        response |-> IF r.tuple THEN listUpdtData'[i]
                                                     ELSE updateFailed]
                            /\ UNCHANGED <<recVars, hangupData, intercomListData,
                                           intercomlistXml>>

\* GET /updatedicomlist/<statustype>/<extNo>
updatedIComList ==
    /\ Idle
    /\ served < MaxServed
    /\ served' = served + 1
    /\ \E statustype \in IComStatusTypes, extNo \in Hints :
           LET idx == UpdtLstIdx(statustype)
               i == CHOOSE k \in idx : TRUE
           IN  IF idx = {} \/ statustype # "Intercomm"
               THEN /\ last' = [op |-> "updatedIComList", statustype |-> statustype,
                                extNo |-> extNo, called |-> FALSE,
                                response |-> IF idx = {} THEN updateFailed
                                             ELSE listUpdtData[i]]
                    /\ UNCHANGED <<recVars, listUpdtData, hangupData,
                                   contactListData, webRtcContListData,
                                   intercomListData, listContactXml,
                                   registrarlistXml, intercomlistXml>>
               ELSE \E load \in LoadOutcomes, conf \in ExtensionsConfs,
                       writeOk \in BOOLEAN :
                        /\ (load # "ok") => (conf = ExtensionsA /\ writeOk)
                        /\ \E r \in {getIntercomList(extNo, load, conf, writeOk,
                                                      intercomlistXml)} :
                            /\ intercomListData' = r.list
                            /\ intercomlistXml' = r.xml
                            /\ listUpdtData' =
                                   IF r.tuple
                                   THEN [listUpdtData EXCEPT ![i] = RowAfter(@, r)]
                                   ELSE listUpdtData
                            /\ last' = [op |-> "updatedIComList",
                                        statustype |-> statustype, extNo |-> extNo,
                                        called |-> TRUE, pre |-> DirPre,
                                        load |-> load, conf |-> conf,
                                        writeOk |-> writeOk, raised |-> r.raised,
                                        retResult |-> r.retResult,
                                        response |-> IF r.tuple THEN listUpdtData'[i]
                                                     ELSE updateFailed]
                            /\ UNCHANGED <<recVars, hangupData, contactListData,
                                           webRtcContListData, listContactXml,
                                           registrarlistXml>>

-----------------------------------------------------------------------------
(* The PUT handlers of the contact tables *)

\* request.json: json FALSE is a request without a JSON body (request.json
\* is None), keys the keys of the object sent
NoJson == [json |-> FALSE, keys |-> {}, ip |-> NA, avail |-> NA]
Json(keys, ip, avail) == [json |-> TRUE, keys |-> keys, ip |-> ip, avail |-> avail]

Ip1 == <<"1", ".", "1">>
OCCUPIED == <<"O", "C", "C", "U", "P", "I", "E", "D">>
DUMMY == <<"D", "U", "M", "M", "Y">>

Bodies ==
    {NoJson, Json({}, NA, NA), Json({"ip"}, Ip1, NA), Json({"avail"}, NA, OCCUPIED),
     Json({"avail"}, NA, DUMMY), Json({"ip", "avail"}, Ip1, OCCUPIED)}

\* the <extNo> path segments tried on the PUT routes
PutExts == {E61, E62, E10}

\* [ e for e in list if (e['ext'] == extNo) ]
ExtNum(list, extNo) == SelectSeq(list, LAMBDA e : e.ext = extNo)

\* 'sip:' + webRtc[0]['ext'] + '@' + request.json['ip']
SipAddr(ext, ip) == <<"s", "i", "p", ":">> \o ext \o <<"@">> \o ip

\* how many xmlTree.write calls succeed before one raises: none, one, or
\* as many as are made
WriteOutcomes(n) == {0, 1, n}

\* the body of updateExtData(extNo): listContact.xml is written once per
\* record, inside the loop, so a write that raises leaves the rows written
\* before it; failed stands for the bare except
updateExtDataRun(extNo, body, okWrites, list, xml) ==
    LET i == ExtDB0(list, extNo)
    IN  IF ~body.json
        THEN [failed |-> TRUE, list |-> list, xml |-> xml, reply |-> << >>]
        ELSE IF "ip" \in body.keys
        THEN IF i = 0
             THEN [failed |-> TRUE, list |-> list, xml |-> xml, reply |-> << >>]
             ELSE LET l2 == [list EXCEPT ![i].ip = body.ip]
                  IN  IF okWrites >= Len(l2)
                      THEN [failed |-> FALSE, list |-> l2, xml |-> ContactRows(l2),
                            reply |-> ExtNum(l2, extNo)]
                      ELSE [failed |-> TRUE, list |-> l2,
                            xml |-> IF okWrites = 0 THEN xml
                                    ELSE ContactRows(SubSeq(l2, 1, okWrites)),
                            reply |-> << >>]
        ELSE [failed |-> FALSE, list |-> list, xml |-> xml,
              reply |-> ExtNum(list, extNo)]

\* the record webRtc[0] after the branch of updateWebRtcData that body selects
WebRtcAfter(rec, body) ==
    IF "ip" \in body.keys
    THEN [rec EXCEPT !.ip = body.ip, !.sip = SipAddr(rec.ext, body.ip)]
    ELSE IF body.avail # DUMMY
    THEN [rec EXCEPT !.avail = body.avail]
    ELSE [rec EXCEPT !.avail = NA, !.ip = NA, !.sip = NA]

\* updateWebRtcData with the record's other fields rewritten as well
updateWebRtcDataRenames(extNo, body, writeOk, list, xml) ==
    LET i == ExtDB0(list, extNo)
    IN  IF ~body.json \/ (body.keys # {} /\ i = 0)
        THEN [failed |-> TRUE, list |-> list, xml |-> xml, reply |-> << >>]
        ELSE IF body.keys = {}
        THEN [failed |-> FALSE, list |-> list, xml |-> xml,
              reply |-> ExtNum(list, extNo)]
        ELSE LET l2 == [list EXCEPT ![i] = [WebRtcAfter(@, body) EXCEPT !.pswd = NA]]
             IN  [failed |-> ~writeOk, list |-> l2,
                  xml |-> IF writeOk THEN RegistrarRows(l2) ELSE xml,
                  reply |-> IF writeOk THEN ExtNum(l2, extNo) ELSE << >>]

\* the body of updateWebRtcData(extNo): registrarlist.xml is written once,
\* after the loop; failed stands for the bare except
updateWebRtcDataRun(extNo, body, writeOk, list, xml) ==
    LET i == ExtDB0(list, extNo)
    IN  IF ~body.json
        THEN [failed |-> TRUE, list |-> list, xml |-> xml, reply |-> << >>]
        ELSE IF "ip" \in body.keys \/ "avail" \in body.keys
        THEN IF i = 0
             THEN [failed |-> TRUE, list |-> list, xml |-> xml, reply |-> << >>]
             ELSE LET l2 == [list EXCEPT ![i] = WebRtcAfter(@, body)]
                  IN  IF writeOk
                      THEN [failed |-> FALSE, list |-> l2, xml |-> RegistrarRows(l2),
                            reply |-> ExtNum(l2, extNo)]
                      ELSE [failed |-> TRUE, list |-> l2, xml |-> xml,
                            reply |-> << >>]
        ELSE [failed |-> FALSE, list |-> list, xml |-> xml,
              reply |-> ExtNum(list, extNo)]

\* PUT /ext/<extNo>
updateExtData ==
    /\ Idle
    /\ served < MaxServed
    /\ served' = served + 1
    /\ \E extNo \in PutExts, body \in Bodies,
          okWrites \in WriteOutcomes(Len(contactListData)) :
           /\ (~body.json \/ "ip" \notin body.keys \/ ExtDB0(contactListData, extNo) = 0)
                  => okWrites = 0
           /\ \E r \in {updateExtDataRun(extNo, body, okWrites, contactListData,
                                         listContactXml)} :
               /\ contactListData' = r.list
               /\ listContactXml' = r.xml
               /\ last' = [op |-> "updateExtData", kind |-> "Normal",
                           extNo |-> extNo, body |-> body, pre |-> DirPre,
                           failed |-> r.failed,
                           response |-> IF r.failed THEN <<updateFailed>>
                                        ELSE r.reply]
               /\ UNCHANGED <<recVars, listUpdtData, hangupData, webRtcContListData,
                              intercomListData, registrarlistXml, intercomlistXml>>

\* PUT /webrtc/<extNo>
updateWebRtcData ==
    /\ Idle
    /\ served < MaxServed
    /\ served' = served + 1
    /\ \E extNo \in PutExts, body \in Bodies, writeOk \in BOOLEAN :
           /\ (~body.json \/ body.keys = {} \/ ExtDB0(webRtcContListData, extNo) = 0)
                  => writeOk
           /\ \E r \in {updateWebRtcDataRun(extNo, body, writeOk, webRtcContListData,
                                            registrarlistXml)} :
               /\ webRtcContListData' = r.list
               /\ registrarlistXml' = r.xml
               /\ last' = [op |-> "updateWebRtcData", kind |-> "Webrtc",
                           extNo |-> extNo, body |-> body, pre |-> DirPre,
                           failed |-> r.failed,
                           response |-> IF r.failed THEN <<updateFailed>>
                                        ELSE r.reply]
               /\ UNCHANGED <<recVars, listUpdtData, hangupData, contactListData,
                              intercomListData, listContactXml, intercomlistXml>>

InitDir ==
    /\ InitRecOne
    /\ InitDirFresh
    /\ listUpdtData = listUpdtDataInit
    /\ hangupData = hangupDataInit
    /\ last = [op |-> "idle", afterDrain |-> FALSE]

NextDir ==
    \/ updatedList
    \/ updatedIComList
    \/ updateExtData
    \/ updateWebRtcData
    \/ requestDone

SpecDir == InitDir /\ [][NextDir]_vars

\* the server after GET /updatedlist/Normal/dummy and
\* GET /updatedlist/Webrtc/dummy over UsersA, both answered SUCCESFULL: the
\* tables and XML files are what getContactList made of them
InitDirSynced ==
    /\ InitRecOne
    /\ \E n \in {getContactList(Dummy, "Normal", "ok", UsersA, "ok", SipNone, TRUE,
                                  <<contactDummy>>, <<webRtcDummy>>, << >>, << >>)} :
         \E w \in {getContactList(Dummy, "Webrtc", "ok", UsersA, "ok", SipNone, TRUE,
                                   n.contact, n.webrtc, n.cxml, n.rxml)} :
             /\ contactListData = w.contact
             /\ webRtcContListData = w.webrtc
             /\ listContactXml = w.cxml
             /\ registrarlistXml = w.rxml
             /\ listUpdtData = [listUpdtDataInit EXCEPT ![1] = RowAfter(@, n),
                                                         ![2] = RowAfter(@, w)]
    /\ intercomListData = <<contactDummy>>
    /\ intercomlistXml = << >>
    /\ served = 0
    /\ hangupData = hangupDataInit
    /\ last = [op |-> "idle", afterDrain |-> FALSE]

SpecDirSynced == InitDirSynced /\ [][NextDir]_vars

-----------------------------------------------------------------------------
(* Directory synchronisation: properties *)

\* the request served last ran getContactList
SyncedList == last.op = "updatedList" /\ last.called

\* the request served last ran getIntercomList
SyncedICom == last.op = "updatedIComList" /\ last.called

\* C9: a synchronisation whose configuration file cannot be opened or parsed
\* is answered with a failure, and the table of its kind and the XML file of
\* its kind are what they were before the request
C9_FailedLoadChangesNothing ==
    /\ (SyncedList /\ (last.uLoad # "ok"
                       \/ (last.statustype = "Normal" /\ last.sLoad # "ok")))
           => /\ last.response.status = "FAILED"
              /\ IF last.statustype = "Normal"
                 THEN /\ contactListData = last.pre.contactListData
                      /\ listContactXml = last.pre.listContactXml
                 ELSE /\ webRtcContListData = last.pre.webRtcContListData
                      /\ registrarlistXml = last.pre.registrarlistXml
    /\ (SyncedICom /\ last.load # "ok")
           => /\ last.response.status = "FAILED"
              /\ intercomListData = last.pre.intercomListData
              /\ intercomlistXml = last.pre.intercomlistXml

\* the section names of a configuration file
SectionNames(conf) == {conf[k].name : k \in 1..Len(conf)}

\* the extension numbers of the intercom and conference contexts of a file
IcomNumbers(conf) ==
    {IcomScan(conf[k].name, 0,
              [flagCnt |-> 0, extType |-> << >>, extNo |-> << >>,
               extFullName |-> << >>]).extNo :
         k \in {j \in 1..Len(conf) : IsIntercomCategory(conf[j].name)}}

\* every record of the table other than the 0000 placeholder is of an
\* extension in exts
OnlyExts(list, exts) ==
    \A k \in 1..Len(list) : list[k].ext # Ext0000 => list[k].ext \in exts

\* C10: after a successful synchronisation the table of its kind holds a
\* record for an extension only if the files read by that synchronisation
\* have a section for it: an extension whose section was removed since the
\* previous synchronisation is gone
C10_RebuiltFromScratch ==
    /\ (SyncedList /\ last.retResult)
           => IF last.statustype = "Normal"
              THEN OnlyExts(contactListData,
                            SectionNames(last.uConf) \cup SectionNames(last.sConf))
              ELSE OnlyExts(webRtcContListData, SectionNames(last.uConf))
    /\ (SyncedICom /\ last.retResult)
           => OnlyExts(intercomListData, IcomNumbers(last.conf))

\* what a synchronisation of the contact tables has no business with
OutsideDir ==
    <<hangupData, recordingXml, fileNeedToDelete, fileToDeleteCnt, deleteProc, recDir>>

\* C11: a synchronisation, successful or not, leaves the tables and XML files
\* of the two other kinds as they were, and leaves the call status table, the
\* recording listing, the deletion queue and the busy flag as they were
C11_SyncFrame ==
    [][ /\ (last'.op = "updatedList" /\ last'.called /\ last'.statustype = "Normal")
            => UNCHANGED <<webRtcContListData, registrarlistXml, intercomListData,
                           intercomlistXml, OutsideDir>>
        /\ (last'.op = "updatedList" /\ last'.called /\ last'.statustype = "Webrtc")
            => UNCHANGED <<contactListData, listContactXml, intercomListData,
                           intercomlistXml, OutsideDir>>
        /\ (last'.op = "updatedIComList" /\ last'.called)
            => UNCHANGED <<contactListData, listContactXml, webRtcContListData,
                           registrarlistXml, OutsideDir>> ]_vars

\* C11 witness: a WEBRTC synchronisation that changed its own table was served
\* while the NORMAL table held records of an earlier synchronisation
C11_Witness ==
    /\ SyncedList /\ last.statustype = "Webrtc"
    /\ webRtcContListData # last.pre.webRtcContListData
    /\ contactListData # <<contactDummy>>
    /\ listContactXml # << >>

\* the table and the request a successful synchronisation worked on:
\* its table before and after, and the <extNo> it was given
SyncedOk == (SyncedList \/ SyncedICom) /\ last.retResult

TableBefore ==
    IF last.op = "updatedIComList" THEN last.pre.intercomListData
    ELSE IF last.statustype = "Normal" THEN last.pre.contactListData
    ELSE last.pre.webRtcContListData

TableAfter ==
    IF last.op = "updatedIComList" THEN intercomListData
    ELSE IF last.statustype = "Normal" THEN contactListData
    ELSE webRtcContListData

\* C12: when the table before a successful synchronisation and the table
\* after it both hold a record of the named extension and the two fullnames
\* differ, the reply carries that extension and its new fullname, wherever
\* the section of the extension stands in the file
C12_ChangedNameReturned ==
    SyncedOk =>
        LET b == ExtDB0(TableBefore, last.extNo)
            a == ExtDB0(TableAfter, last.extNo)
        IN  (b # 0 /\ a # 0 /\ TableBefore[b].fullname # TableAfter[a].fullname)
                => /\ last.response.ext = last.extNo
                   /\ last.response.fullname = TableAfter[a].fullname

\* C13: when the named extension has the same fullname in the table before a
\* successful synchronisation and in the table after it, or the table after
\* it has no record of the named extension, the reply carries no changed
\* extension and no changed fullname (NA for both)
C13_UnchangedNameNotReturned ==
    SyncedOk =>
        LET b == ExtDB0(TableBefore, last.extNo)
            a == ExtDB0(TableAfter, last.extNo)
        IN  (a = 0 \/ (b # 0 /\ TableBefore[b].fullname = TableAfter[a].fullname))
                => /\ last.response.ext = NA
                   /\ last.response.fullname = NA

\* no two records of the table have the same ext
UniqueExts(list) ==
    \A j, k \in 1..Len(list) : list[j].ext = list[k].ext => j = k

\* C14: in every reachable state no two records of contactListData have the
\* same extension, nor two of webRtcContListData, nor two of intercomListData
C14_ExtensionsUnique ==
    /\ UniqueExts(contactListData)
    /\ UniqueExts(webRtcContListData)
    /\ UniqueExts(intercomListData)

\* the type getContactList reads from the items of a users.conf section
DerivedType(items) ==
    ItemLoop(items, 1, [extName |-> << >>, extSecret |-> << >>,
                        extTypeStrt |-> FALSE, extType |-> << >>]).extType

\* the sections of users.conf whose type is SIP WEBRTC
WebRtcSections(conf) ==
    {conf[k].name : k \in {j \in 1..Len(conf) :
                               /\ conf[j].name # General
                               /\ DerivedType(conf[j].items) = SipWebrtc}}

\* C15: after a successful synchronisation of the NORMAL table, the table
\* holds no record of an extension whose users.conf section has the type
\* SIP WEBRTC
C15_NoWebRtcInNormal ==
    (SyncedList /\ last.retResult /\ last.statustype = "Normal")
        => \A k \in 1..Len(contactListData) :
               contactListData[k].ext \notin WebRtcSections(last.uConf)


\* C16: a successful synchronisation of the INTERCOM table over an
\* extensions.conf holding the context intercom-1010-Bilik_SENJATA leaves a
\* record with ext 1010, fullname Bilik_SENJATA and type intercom
C16_SampleIntercomRecord ==
    (SyncedICom /\ last.retResult
                /\ \E k \in 1..Len(last.conf) : last.conf[k] = IntercomBilik)
        => \E k \in 1..Len(intercomListData) :
               /\ intercomListData[k].ext = E1010
               /\ intercomListData[k].fullname = BilikSenjata
               /\ intercomListData[k].type = Intercom


-----------------------------------------------------------------------------
(* Properties of the manual delete route *)

\* the request served last was a delete on the Recording row
DeletedNamed ==
    /\ last.op = "deleteRecData"
    /\ last.statustype = "Recording"

\* C17: the delete route answers FAILED whenever rm did not remove the named
\* file (it was not there) and SUCCESFULL whenever it did, whatever the
\* refresh it triggers returns
C17_StatusFollowsDelete ==
    DeletedNamed
        => last.response.status = IF last.rmDone THEN "SUCCESFULL" ELSE "FAILED"

\* C18: once the delete route has removed the named file and run its
\* refresh (recording.xml being writable), from any state and also with a
\* deletion batch pending, recording.xml no longer lists that file
C18_DeletedFileNotListed ==
    (DeletedNamed /\ last.called /\ last.writeOk)
        => last.filedetail \notin CatalogFiles(recordingXml)


-----------------------------------------------------------------------------
(* Properties of the PUT handlers *)

\* the request served last was a PUT on one of the two tables
PutServed == last.op \in {"updateExtData", "updateWebRtcData"}

\* the table the PUT addressed, before and after, and its XML file
PutBefore ==
    IF last.kind = "Normal" THEN last.pre.contactListData
    ELSE last.pre.webRtcContListData
PutAfter == IF last.kind = "Normal" THEN contactListData ELSE webRtcContListData
PutXml == IF last.kind = "Normal" THEN listContactXml ELSE registrarlistXml
PutRows(list) ==
    IF last.kind = "Normal" THEN ContactRows(list) ELSE RegistrarRows(list)

\* the body selects a branch of the handler that updates and writes
PutUpdates ==
    /\ last.body.json
    /\ \/ "ip" \in last.body.keys
       \/ last.kind = "Webrtc" /\ "avail" \in last.body.keys

\* everything but the addressed table and its XML file is as before
PutFrame ==
    /\ intercomListData = last.pre.intercomListData
    /\ intercomlistXml = last.pre.intercomlistXml
    /\ listUpdtData = last.pre.listUpdtData
    /\ last.kind = "Normal" => /\ webRtcContListData = last.pre.webRtcContListData
                               /\ registrarlistXml = last.pre.registrarlistXml
    /\ last.kind = "Webrtc" => /\ contactListData = last.pre.contactListData
                               /\ listContactXml = last.pre.listContactXml

\* rec differs from old at most in ip (and, in the WEBRTC table, sip and avail)
OnlyAddressFields(old, rec) ==
    IF last.kind = "Normal"
    THEN rec = [old EXCEPT !.ip = rec.ip]
    ELSE rec = [old EXCEPT !.ip = rec.ip, !.sip = rec.sip, !.avail = rec.avail]

\* C19: a PUT for an extension the table holds changes, in the first record
\* of that extension, at most ip, avail and (WEBRTC) sip, an ip sent being
\* stored and (WEBRTC) sip becoming sip:<ext>@<ip>; every other record, the
\* other tables and the other XML files stay as they were; and when the
\* handler took an updating branch and answered without error, the XML
\* file of that table holds exactly the rows of the table
C19_PutChangesOneRecord ==
    (PutServed /\ ExtDB0(PutBefore, last.extNo) # 0)
        => LET i == ExtDB0(PutBefore, last.extNo)
           IN  /\ Len(PutAfter) = Len(PutBefore)
               /\ \A k \in 1..Len(PutAfter) : k # i => PutAfter[k] = PutBefore[k]
               /\ OnlyAddressFields(PutBefore[i], PutAfter[i])
               /\ (last.body.json /\ "ip" \in last.body.keys)
                      => /\ PutAfter[i].ip = last.body.ip
                         /\ last.kind = "Webrtc"
                                => PutAfter[i].sip = SipAddr(last.extNo, last.body.ip)
               /\ ~PutUpdates => PutAfter[i] = PutBefore[i]
               /\ PutFrame
               /\ (PutUpdates /\ ~last.failed) => PutXml = PutRows(PutAfter)

\* a PUT of an ip for an extension of a WEBRTC table of several records was
\* answered with the record, whose sip changed
C19_Witness ==
    /\ PutServed
    /\ last.kind = "Webrtc"
    /\ ExtDB0(PutBefore, last.extNo) > 1
    /\ "ip" \in last.body.keys
    /\ ~last.failed
    /\ PutAfter # PutBefore
    /\ registrarlistXml # last.pre.registrarlistXml


\* C20: a PUT for an extension the addressed table does not hold is
\* answered with the FAILED row whatever the body, and leaves the table
\* and its XML file as they were
C20_AbsentExtensionFails ==
    (PutServed /\ ExtDB0(PutBefore, last.extNo) = 0)
        => /\ last.response = <<updateFailed>>
           /\ PutAfter = PutBefore
           /\ PutXml = (IF last.kind = "Normal" THEN last.pre.listContactXml
                        ELSE last.pre.registrarlistXml)


-----------------------------------------------------------------------------
(* Properties of the request thread racing the delete thread *)

\* C21: under every interleaving of the refreshes (that of the delete route
\* included) with the delete thread, no file name is in fileNeedToDelete
\* more than once
C21_QueuedAtMostOnce ==
    \A j, k \in 1..Len(fileNeedToDelete) :
        fileNeedToDelete[j] = fileNeedToDelete[k] => j = k


\* C22: whenever a refresh is about to test deleteProc (line 464), under any
\* interleaving with the delete thread, deleteProc is set if and only if
\* fileNeedToDelete is not empty
C22_BusyIffQueued ==
    thr.req.pc = "test" => (deleteProc = TRUE <=> fileNeedToDelete # << >>)


\* C23: under any interleaving, a file name leaves fileNeedToDelete only
\* after the delete thread has run rm on it in the current pass: the pass
\* runs rm for every queued name before the queue is cleared
C23_RemovedOnlyAfterDelete ==
    [][ \A k \in 1..Len(fileNeedToDelete) :
            (\A j \in 1..Len(fileNeedToDelete') :
                 fileNeedToDelete'[j] # fileNeedToDelete[k])
                => fileNeedToDelete[k] \in thr.del.issued ]_vars


\* C24: with the delete thread scheduled fairly, and under any interleaving
\* with refreshes, deleteProc once set is eventually clear with
\* fileNeedToDelete empty, so that a later refresh is not declined
C24_BusyEventuallyCleared ==
    (deleteProc = TRUE) ~> (deleteProc = FALSE /\ fileNeedToDelete = << >>)


\* C25: under any interleaving of the queueing loop with the drain,
\* whenever the delete thread is about to build range(fileToDeleteCnt) the
\* counter equals the length of fileNeedToDelete, and the thread never
\* ends on an index past the end of the queue
C25_CounterMatchesQueue ==
    /\ thr.del.pc = "range" => fileToDeleteCnt = Len(fileNeedToDelete)
    /\ reaperAlive


-----------------------------------------------------------------------------
(* Who empties the deletion queue *)

\* the step is one of the delete thread
ReaperActs == last'.op = "deleteRecordingFile" \/ thr'.del # thr.del

\* every name queued before the step is still queued, in place, after it
QueueKept ==
    /\ Len(fileNeedToDelete') >= Len(fileNeedToDelete)
    /\ \A k \in 1..Len(fileNeedToDelete) : fileNeedToDelete'[k] = fileNeedToDelete[k]

-----------------------------------------------------------------------------
(* Further properties of one refresh *)

\* the request served last ran getRecordFile() with deleteProc clear
RefreshedNotBusy == Refreshed /\ last.pre.deleteProc = FALSE

\* C27: a refresh that finds deleteProc clear and returns False leaves
\* fileNeedToDelete, its counter and deleteProc as they were before the call
C27_FailedRefreshQueuesNothing ==
    (RefreshedNotBusy /\ ~last.retResult)
        => /\ fileNeedToDelete = last.pre.fileNeedToDelete
           /\ fileToDeleteCnt = last.pre.fileToDeleteCnt
           /\ deleteProc = last.pre.deleteProc


\* C28: a refresh that finds deleteProc clear, over L files with
\* 0 < L <= totRetainRecFile (and whose write can succeed), lists every file,
\* newest first, appends nothing to fileNeedToDelete and leaves deleteProc clear
C28_AllListedNoneQueued ==
    ( /\ RefreshedNotBusy /\ last.writeOk
      /\ EnumeratedDir # {}
      /\ Cardinality(EnumeratedDir) <= totRetainRecFile )
    => /\ ListsNewest(recordingXml, EnumeratedDir, Cardinality(EnumeratedDir))
       /\ fileNeedToDelete = last.pre.fileNeedToDelete
       /\ deleteProc = FALSE


KeptFiles ==
    SubSeq(SortedByMtimeDesc(EnumeratedDir, mtime), 1,
           Min(totRetainRecFile, Cardinality(EnumeratedDir)))

\* the name has fewer than 4 hyphens
Malformed(fileName) ==
    Cardinality({b \in 1..Len(fileName) : fileName[b] = "-"}) < 4

\* the row of a well-formed name scanned on its own
OwnRow(fileName) ==
    LET st == ScanName(fileName, 0,
                       [deleteProc |-> FALSE, fileNeedToDelete |-> << >>,
                        fileToDeleteCnt |-> 0, realTotRecFile |-> 1,
                        dataSelect |-> 0, dashCnt |-> 0,
                        tempDateTimeOfCall |-> << >>, tempExtInvol |-> << >>,
                        dateTimeOfCall |-> << >>, extInvol |-> << >>])
    IN  [DATETIME |-> st.dateTimeOfCall[1], EXTENSIONS |-> st.extInvol[1],
         FILEPATH |-> fileName]

RECURSIVE OwnRows(_)
OwnRows(files) ==
    IF files = << >> THEN << >>
    ELSE IF Malformed(files[1]) THEN OwnRows(Tail(files))
    ELSE <<OwnRow(files[1])>> \o OwnRows(Tail(files))

\* C30: a refresh that finds deleteProc clear (its write able to succeed)
\* with a malformed name among the files kept still returns True; the
\* listing holds, in order, the row of every other kept file as parsed from
\* that file's own name; and the malformed file counts as kept: exactly the
\* files of rank totRetainRecFile and beyond are queued
C30_MalformedNameSkipped ==
    ( /\ RefreshedNotBusy /\ last.writeOk
      /\ \E a \in 1..Len(KeptFiles) : Malformed(KeptFiles[a]) )
    => /\ last.retResult
       /\ CatalogEntries(recordingXml) = OwnRows(KeptFiles)
       /\ Len(fileNeedToDelete)
              = Len(last.pre.fileNeedToDelete)
                    + Cardinality(EnumeratedDir) - Len(KeptFiles)


\* the records of the listing whose first field has a '-' and contains
\* SIP/{ext}, in listing order
MatchingRecords(chan, ext) ==
    SelectSeq(ListingRecords(chan),
              LAMBDA rec : /\ StrIn(<<"-">>, FirstField(rec))
                           /\ StrIn(SIP \o ext, FirstField(rec)))

\* C31: when several records of the listing match the target, terminate
\* issues its hangup for the first of them in listing order, and the channel
\* it names is exactly the first field of that record
C31_FirstMatchSelected ==
    ( Terminated /\ Len(MatchingRecords(last.chan, last.callchannel)) >= 2 )
    => last.hangup = <<FirstField(MatchingRecords(last.chan, last.callchannel)[1])>>


\* the listing without the records whose first field has no '-'
WithoutMalformed(chan) ==
    Concat([a \in 1..Len(SelectSeq(ListingRecords(chan),
                                   LAMBDA rec : StrIn(<<"-">>, FirstField(rec)))) |->
               SelectSeq(ListingRecords(chan),
                         LAMBDA rec : StrIn(<<"-">>, FirstField(rec)))[a]
                   \o <<"\n">>])

\* C32: a record whose first field has no '-' is skipped: no hangup names
\* its first field, and a hangup is issued only if the same hangup is issued
\* for the listing without such records
C32_MalformedTokenSkipped ==
    ( Terminated /\ last.hangup # << >> )
    => /\ StrIn(<<"-">>, last.hangup[1])
       /\ \A a \in 1..Len(ListingRecords(last.chan)) :
              ~StrIn(<<"-">>, FirstField(ListingRecords(last.chan)[a]))
                  => last.hangup[1] # FirstField(ListingRecords(last.chan)[a])
       /\ ResolveChannel(last.pre[1].status, last.callchannel,
                         WithoutMalformed(last.chan), last.listed,
                         last.outcome).hangup = last.hangup


\* C33: a terminate issues at most one hangup, whatever the number of
\* matching records and whatever the hangup's outcome: the commands it runs
\* are the listing and at most one hangup
C33_AtMostOneDirective ==
    last.op = "terminateGivenCall"
    => /\ Len(last.hangup) <= 1
       /\ last.commands <= 2

\* a terminate over a listing with three matching records, whose hangup
\* reported a failure, issued one hangup
C33_Witness ==
    /\ Terminated
    /\ Len(MatchingRecords(last.chan, last.callchannel)) >= 3
    /\ last.outcome = "failed"
    /\ Len(last.hangup) = 1


\* C34: a terminate changes nothing but the record of hangupData that has
\* the id given: the contact tables and their XML files, the recording
\* listing and directory, the deletion queue, its counter and the busy flag,
\* the update status rows and every record of another id stay as they were
C34_TerminateFrame ==
    [][ last'.op = "terminateGivenCall"
        => /\ UNCHANGED <<contactListData, webRtcContListData, intercomListData,
                          listContactXml, registrarlistXml, intercomlistXml,
                          recordingXml, recDir, fileNeedToDelete,
                          fileToDeleteCnt, deleteProc, listUpdtData>>
           /\ Len(hangupData') = Len(hangupData)
           /\ \A i \in 1..Len(hangupData) :
                  /\ hangupData'[i].id = hangupData[i].id
                  /\ hangupData[i].id # last'.hgUpId
                         => hangupData'[i] = hangupData[i] ]_vars

\* a terminate of a known id issued its hangup and changed the status and
\* the channel of the record
C34_Witness ==
    /\ Terminated
    /\ last.hangup # << >>
    /\ StatusNow # last.pre[1].status
    /\ hangupData[1].callchannel # last.pre[1].callchannel


\* the fullname getContactList reads from the items of a users.conf section
DerivedName(items) ==
    ItemLoop(items, 1, [extName |-> << >>, extSecret |-> << >>,
                        extTypeStrt |-> FALSE, extType |-> << >>]).extName

\* C35: after a successful synchronisation of the NORMAL table, an extension
\* that the users.conf pass stored and that sip.conf has too is in
\* contactListData once, with the fullname read from users.conf
C35_FirstPassWins ==
    (SyncedList /\ last.retResult /\ last.statustype = "Normal")
        => \A u \in 1..Len(last.uConf), s \in 1..Len(last.sConf) :
               ( /\ last.uConf[u].name = last.sConf[s].name
                 /\ last.uConf[u].name \notin {General, Tgprovider}
                 /\ DerivedType(last.uConf[u].items) # FXO )
               => /\ Cardinality({k \in 1..Len(contactListData) :
                          contactListData[k].ext = last.uConf[u].name}) = 1
                  /\ \A k \in 1..Len(contactListData) :
                         contactListData[k].ext = last.uConf[u].name
                             => contactListData[k].fullname
                                    = DerivedName(last.uConf[u].items)


\* a section name cut at its first two hyphens: the text before the first,
\* the text between the first and the second, and all that follows the second
SplitAtTwoHyphens(name) ==
    LET h1 == PyFind(name, "-")
        rest == IF h1 = -1 THEN << >> ELSE SubSeq(name, h1 + 2, Len(name))
        h2 == PyFind(rest, "-")
    IN  [type |-> IF h1 = -1 THEN name ELSE SubSeq(name, 1, h1),
         ext |-> IF h2 = -1 THEN rest ELSE SubSeq(rest, 1, h2),
         fullname |-> IF h2 = -1 THEN << >> ELSE SubSeq(rest, h2 + 2, Len(rest))]

\* C36: after a successful synchronisation of the INTERCOM table, every
\* section of extensions.conf that the parser takes (the last one of its
\* extension number) has a record whose type is the text of its name before
\* the first hyphen, whose ext is the text between the first and the second
\* hyphen and whose fullname is the whole remainder, further hyphens included
C36_SplitAtFirstTwoHyphens ==
    (SyncedICom /\ last.retResult)
        => \A k \in 1..Len(last.conf) :
               ( /\ IsIntercomCategory(last.conf[k].name)
                 /\ \A j \in (k + 1)..Len(last.conf) :
                        IsIntercomCategory(last.conf[j].name)
                            => SplitAtTwoHyphens(last.conf[j].name).ext
                                   # SplitAtTwoHyphens(last.conf[k].name).ext )
               => \E r \in 1..Len(intercomListData) :
                      /\ intercomListData[r].type
                             = SplitAtTwoHyphens(last.conf[k].name).type
                      /\ intercomListData[r].ext
                             = SplitAtTwoHyphens(last.conf[k].name).ext
                      /\ intercomListData[r].fullname
                             = SplitAtTwoHyphens(last.conf[k].name).fullname

\* a synchronisation over the section conferences-20-b-c stored the record
\* of extension 20 with the location b-c
C36_Witness ==
    /\ SyncedICom /\ last.retResult
    /\ \E k \in 1..Len(last.conf) : last.conf[k] = Conf20
    /\ \E r \in 1..Len(intercomListData) :
           /\ intercomListData[r].type = Conferences
           /\ intercomListData[r].ext = <<"2", "0">>
           /\ intercomListData[r].fullname = <<"b", "-", "c">>


\* the rows of xml are the records of a contact table, one by one in order
ListsContacts(xml, list) ==
    /\ Len(xml) = Len(list)
    /\ \A k \in 1..Len(list) :
           /\ xml[k].CALLID = list[k].ext
           /\ xml[k].LOCATION = list[k].fullname
           /\ xml[k].TYPE = list[k].type
           /\ xml[k].IPADDR = list[k].ip

\* the rows of xml are the records of the WEBRTC table, one by one in order
ListsRegistrars(xml, list) ==
    /\ Len(xml) = Len(list)
    /\ \A k \in 1..Len(list) :
           /\ xml[k].USERNAME = list[k].ext
           /\ xml[k].LOCATION = list[k].fullname
           /\ xml[k].PSWD = list[k].pswd
           /\ xml[k].IPADDR = list[k].ip
           /\ xml[k].SIPADDR = list[k].sip
           /\ xml[k].AVAIL = list[k].avail

\* C37: after a successful synchronisation of a kind, the XML file of that
\* kind holds one row for each record of the rebuilt table of that kind, with
\* the values of the record, in the order of the table
C37_ListingIsTable ==
    /\ (SyncedList /\ last.retResult /\ last.statustype = "Normal")
           => ListsContacts(listContactXml, contactListData)
    /\ (SyncedList /\ last.retResult /\ last.statustype = "Webrtc")
           => ListsRegistrars(registrarlistXml, webRtcContListData)
    /\ (SyncedICom /\ last.retResult)
           => ListsContacts(intercomlistXml, intercomListData)

\* a synchronisation of the NORMAL table rebuilt a table of several records
\* and rewrote listContact.xml
C37_Witness ==
    /\ SyncedList /\ last.retResult /\ last.statustype = "Normal"
    /\ Len(contactListData) >= 2
    /\ contactListData # last.pre.contactListData
    /\ listContactXml # last.pre.listContactXml


\* every record of after whose ext a record of before has holds the ip of
\* that record
KeepsIp(before, after) ==
    \A j \in 1..Len(before), k \in 1..Len(after) :
        after[k].ext = before[j].ext => after[k].ip = before[j].ip

\* the same for the sip address and the availability of the WEBRTC table
KeepsSipAvail(before, after) ==
    \A j \in 1..Len(before), k \in 1..Len(after) :
        after[k].ext = before[j].ext
            => after[k].sip = before[j].sip /\ after[k].avail = before[j].avail

\* C38: a successful synchronisation of a kind leaves, for every extension
\* the table of that kind has both before and after it, the ip of the record
\* as it was, and for the WEBRTC table the sip address and the availability
\* too
C38_SyncKeepsAddress ==
    /\ (SyncedList /\ last.retResult /\ last.statustype = "Normal")
           => KeepsIp(last.pre.contactListData, contactListData)
    /\ (SyncedList /\ last.retResult /\ last.statustype = "Webrtc")
           => /\ KeepsIp(last.pre.webRtcContListData, webRtcContListData)
              /\ KeepsSipAvail(last.pre.webRtcContListData, webRtcContListData)
    /\ (SyncedICom /\ last.retResult)
           => KeepsIp(last.pre.intercomListData, intercomListData)


\* C39: in every state reached through synchronisations and PUT requests,
\* each record of webRtcContListData has sip NA exactly when its ip is NA,
\* and otherwise sip is sip:{ext}@{ip} for the ext and the ip of that record
C39_SipAddressConsistent ==
    \A k \in 1..Len(webRtcContListData) :
        /\ webRtcContListData[k].sip = NA <=> webRtcContListData[k].ip = NA
        /\ webRtcContListData[k].ip # NA
               => webRtcContListData[k].sip
                      = SipAddr(webRtcContListData[k].ext, webRtcContListData[k].ip)

=============================================================================
